---------------------------- MODULE Spec2Model ----------------------------
(***************************************************************************)
(* Metrics agents of overview_dashboard: the severity classifiers of the   *)
(* Linux host agent and of the Checkpoint appliance agent, the replica     *)
(* status of the OpenShift cluster agent, and the runs of the agents that  *)
(* post their record to the monitoring backend.                            *)
(*                                                                         *)
(* Five specifications share the variables:                                *)
(*   SpecSev     one execution of a calculate_severity, one rule per step  *)
(*   SpecStatus  the cluster agent's classification of one workload object *)
(*   SpecRun     one run of a posting agent (host, appliance, cluster)     *)
(*   SpecGet     runs of a printing agent (host, appliance) on the same    *)
(*               probe results                                             *)
(*   SpecExtract one call of an extractor on the result of its probe       *)
(***************************************************************************)
EXTENDS Integers, Sequences, FiniteSets, TLC

VARIABLES
    agent,          \* which program this behaviour is a run of
    pc,             \* position in that program
    inp,            \* the inputs of the run: arguments, probe results, backend
    severity,       \* local `severity` of calculate_severity / of main
    di,             \* loop position: disk index, or index in resource_list
    payload,        \* the payload built by build_payload / the resource entry
    kindIdx,        \* collect_and_push: position in RESOURCES
    resource_list,  \* collect_and_push: entries of the current kind
    attempts,       \* POST attempts made: per kind, per resource (cluster);
                    \* a one-element vector for the single-payload agents
    services,       \* main: all_problem_services of the host agent
    raised,         \* the exception in flight ("none" when there is none)
    printed,        \* messages written to the terminal so far
    exitCode,       \* -1 while running, then the exit status of the process
    locals,         \* local variables of the function being executed
    stdout          \* the JSON documents printed so far, in order

vars == <<agent, pc, inp, severity, di, payload, kindIdx, resource_list,
          attempts, services, raised, printed, exitCode, locals, stdout>>

(***************************************************************************)
(* Bounds of the model and sample values of the inputs.                    *)
(***************************************************************************)
MaxDisks == 2
MaxServices == 1
MaxErrors == 1

\* usage percentages around the default thresholds 85 / 95
PctValues == {10, 85, 87, 95, 96}
DiskPctValues == {10, 87, 96}
\* --threshold-warning / --threshold-error: every pair, warning > error too
ThresholdValues == {85, 95}

ServiceNames == {"nginx.service"}
ErrorStrings == {"Filter: DOWN"}
HeavyLines == {"conn 17/12/25"}
ClusterStates == {"ACTIVE", "STANDBY", "DOWN", "Problem", "error", "Unknown"}

SeqsUpTo(S, n) == UNION {[1..k -> S] : k \in 0..n}

DiskEntries ==
    [device : {"/dev/sda1"}, mount_point : {"/"}, used_percent : DiskPctValues]
DiskLists == SeqsUpTo(DiskEntries, MaxDisks)
ServiceLists == SeqsUpTo(ServiceNames, MaxServices)
ErrorLists == SeqsUpTo(ErrorStrings, MaxErrors)
HeavyLists == SeqsUpTo(HeavyLines, MaxErrors)

(***************************************************************************)
(* Severity: the ordinal ok < warning < error.                             *)
(***************************************************************************)
Severities == {"ok", "warning", "error"}

Rank(s) == CASE s = "ok" -> 0 [] s = "warning" -> 1 [] s = "error" -> 2

\* str.lower() on the cluster states the model draws
Lower(s) ==
    CASE s = "ACTIVE" -> "active"
      [] s = "STANDBY" -> "standby"
      [] s = "DOWN" -> "down"
      [] s = "Problem" -> "problem"
      [] s = "Unknown" -> "unknown"
      [] OTHER -> s

(***************************************************************************)
(* Host agent, calculate_severity: one operator per rule, each taking the  *)
(* running severity and returning the severity after the rule.             *)
(***************************************************************************)
HostCpuRuleStrict(sev, cpu, w, e) ==
    IF cpu > e THEN "error"
    ELSE IF cpu > w /\ sev # "error" THEN "warning"
    ELSE sev

HostCpuRule(sev, cpu, w, e) ==
    IF cpu >= e THEN "error"
    ELSE IF cpu >= w /\ sev # "error" THEN "warning"
    ELSE sev

HostMemoryRuleNoGuard(sev, mem, w, e) ==
    IF mem >= e THEN "error"
    ELSE IF mem >= w THEN "warning"
    ELSE sev

HostMemoryRule(sev, mem, w, e) ==
    IF mem >= e THEN "error"
    ELSE IF mem >= w /\ sev # "error" THEN "warning"
    ELSE sev

HostDiskRuleNoGuard(sev, disk, w, e) ==
    IF disk.used_percent >= e THEN "error"
    ELSE IF disk.used_percent >= w THEN "warning"
    ELSE sev

HostDiskRule(sev, disk, w, e) ==
    IF disk.used_percent >= e THEN "error"
    ELSE IF disk.used_percent >= w /\ sev # "error" THEN "warning"
    ELSE sev

HostServicesRule(sev, failed_services) ==
    IF Len(failed_services) > 0 THEN "error" ELSE sev

RECURSIVE HostDiskLoop(_, _, _, _)
HostDiskLoop(sev, disks, w, e) ==
    IF disks = <<>> THEN sev
    ELSE HostDiskLoop(HostDiskRule(sev, Head(disks), w, e), Tail(disks), w, e)

HostCalculateSeverity(cpu, mem, disks, failed_services, w, e) ==
    HostServicesRule(
        HostDiskLoop(
            HostMemoryRule(HostCpuRule("ok", cpu, w, e), mem, w, e),
            disks, w, e),
        failed_services)

(***************************************************************************)
(* Appliance agent, calculate_severity.                                    *)
(***************************************************************************)
FwCpuRuleAverageOnly(sev, cpu, max_cpu, w, e) ==
    IF cpu >= e THEN "error"
    ELSE IF cpu >= w /\ sev # "error" THEN "warning"
    ELSE sev

FwCpuRule(sev, cpu, max_cpu, w, e) ==
    IF cpu >= e \/ max_cpu >= e THEN "error"
    ELSE IF (cpu >= w \/ max_cpu >= w) /\ sev # "error" THEN "warning"
    ELSE sev

FwMemoryRuleNoGuard(sev, mem, w, e) ==
    IF mem >= e THEN "error"
    ELSE IF mem >= w THEN "warning"
    ELSE sev

FwMemoryRule(sev, mem, w, e) ==
    IF mem >= e THEN "error"
    ELSE IF mem >= w /\ sev # "error" THEN "warning"
    ELSE sev

FwClusterRule(sev, cluster_state) ==
    IF Lower(cluster_state) \in {"down", "problem", "error", "unknown"}
    THEN "error" ELSE sev

FwErrorsRule(sev, errors) == IF Len(errors) > 0 THEN "error" ELSE sev

FwHeavyRule(sev, heavy_connections) ==
    IF Len(heavy_connections) > 0 THEN "error" ELSE sev

FwCalculateSeverity(cpu, max_cpu, mem, cluster_state, errors, heavy, w, e) ==
    FwHeavyRule(
        FwErrorsRule(
            FwClusterRule(
                FwMemoryRule(FwCpuRule("ok", cpu, max_cpu, w, e), mem, w, e),
                cluster_state),
            errors),
        heavy)

(***************************************************************************)
(* SpecSev: one execution of calculate_severity, a step per rule.          *)
(***************************************************************************)
HostInputs ==
    [cpu : PctValues, mem : PctValues, disks : DiskLists,
     services : ServiceLists, w : ThresholdValues, e : ThresholdValues]

FwInputs ==
    [cpu : PctValues, max_cpu : PctValues, mem : PctValues,
     cluster_state : ClusterStates, errors : ErrorLists, heavy : HeavyLists,
     w : ThresholdValues, e : ThresholdValues]

\* a JSON object / dict is a function from its keys; {} is the empty one
EmptyDict == [k \in {} |-> 0]

NoRunState ==
    /\ payload = EmptyDict
    /\ kindIdx = 0
    /\ resource_list = <<>>
    /\ attempts = <<>>
    /\ services = <<>>
    /\ raised = "none"
    /\ printed = {}
    /\ exitCode = -1
    /\ locals = EmptyDict
    /\ stdout = <<>>

runVars == <<payload, kindIdx, resource_list, attempts, services, raised,
             printed, exitCode, locals, stdout>>

InitSev ==
    /\ \/ agent = "host" /\ inp \in HostInputs
       \/ agent = "fw" /\ inp \in FwInputs
    /\ pc = "cpu"
    /\ severity = "ok"
    /\ di = 1
    /\ NoRunState

SevCpu ==
    /\ pc = "cpu"
    /\ severity' = IF agent = "host"
                   THEN HostCpuRule(severity, inp.cpu, inp.w, inp.e)
                   ELSE FwCpuRule(severity, inp.cpu, inp.max_cpu, inp.w, inp.e)
    /\ pc' = "mem"
    /\ UNCHANGED <<agent, inp, di, runVars>>

SevMemory ==
    /\ pc = "mem"
    /\ severity' = IF agent = "host"
                   THEN HostMemoryRule(severity, inp.mem, inp.w, inp.e)
                   ELSE FwMemoryRule(severity, inp.mem, inp.w, inp.e)
    /\ pc' = IF agent = "fw" THEN "cluster"
             ELSE IF Len(inp.disks) > 0 THEN "disk" ELSE "services"
    /\ UNCHANGED <<agent, inp, di, runVars>>

SevDisk ==
    /\ pc = "disk"
    /\ severity' = HostDiskRule(severity, inp.disks[di], inp.w, inp.e)
    /\ di' = di + 1
    /\ pc' = IF di = Len(inp.disks) THEN "services" ELSE "disk"
    /\ UNCHANGED <<agent, inp, runVars>>

SevServices ==
    /\ pc = "services"
    /\ severity' = HostServicesRule(severity, inp.services)
    /\ pc' = "return"
    /\ UNCHANGED <<agent, inp, di, runVars>>

SevCluster ==
    /\ pc = "cluster"
    /\ severity' = FwClusterRule(severity, inp.cluster_state)
    /\ pc' = "errors"
    /\ UNCHANGED <<agent, inp, di, runVars>>

SevErrors ==
    /\ pc = "errors"
    /\ severity' = FwErrorsRule(severity, inp.errors)
    /\ pc' = "heavy"
    /\ UNCHANGED <<agent, inp, di, runVars>>

SevHeavy ==
    /\ pc = "heavy"
    /\ severity' = FwHeavyRule(severity, inp.heavy)
    /\ pc' = "return"
    /\ UNCHANGED <<agent, inp, di, runVars>>

NextSev ==
    \/ SevCpu
    \/ SevMemory
    \/ SevDisk
    \/ SevServices
    \/ SevCluster
    \/ SevErrors
    \/ SevHeavy

SpecSev == InitSev /\ [][NextSev]_vars


(***************************************************************************)
(* Claims about the severity classifiers (SpecSev).                        *)
(***************************************************************************)
Returned == pc = "return"

\* the result of the classifier of this run on the inputs x
Classify(x) ==
    IF agent = "host"
    THEN HostCalculateSeverity(x.cpu, x.mem, x.disks, x.services, x.w, x.e)
    ELSE FwCalculateSeverity(x.cpu, x.max_cpu, x.mem, x.cluster_state,
                             x.errors, x.heavy, x.w, x.e)

\* the inputs that differ from inp in one numeric metric, which is raised
RaisedInputs ==
    {[inp EXCEPT !.cpu = v] : v \in {u \in PctValues : u >= inp.cpu}}
    \cup {[inp EXCEPT !.mem = v] : v \in {u \in PctValues : u >= inp.mem}}
    \cup (IF agent = "host"
          THEN {[inp EXCEPT !.disks[i].used_percent = v] :
                  <<i, v>> \in {q \in (1..Len(inp.disks)) \X DiskPctValues :
                                  q[2] >= inp.disks[q[1]].used_percent}}
          ELSE {[inp EXCEPT !.max_cpu = v] :
                  v \in {u \in PctValues : u >= inp.max_cpu}})

\* C1: with warning <= error, raising one numeric metric (CPU average, CPU
\* max, memory, one disk's used_percent) of a finished classification, all
\* other inputs fixed, never gives a lower severity than the one returned.
C1_RaisingNeverLowers ==
    (Returned /\ inp.w <= inp.e) =>
        \A x \in RaisedInputs : Rank(Classify(x)) >= Rank(severity)

\* a returned 'warning' that a raised memory value turns into 'error'
C1_Witness ==
    /\ Returned /\ inp.w < inp.e /\ severity = "warning"
    /\ \E x \in RaisedInputs : x.mem > inp.mem /\ Classify(x) = "error"

\* C2: severity ratchet: no step of calculate_severity (CPU, memory, each
\* disk entry, cluster state, errors, services, heavy connections) lowers
\* the running severity, for every threshold pair (warning > error too).
C2_Ratchet == [][Rank(severity') >= Rank(severity)]_vars

\* the memory rule is about to run on a value in [warning, error) while the
\* running severity is already 'error'
C2_Witness ==
    /\ pc = "mem" /\ severity = "error"
    /\ inp.mem >= inp.w /\ inp.mem < inp.e

\* the severity of each rule on its own, starting from 'ok'
RuleSeverities ==
    IF agent = "host"
    THEN {HostCpuRule("ok", inp.cpu, inp.w, inp.e),
          HostMemoryRule("ok", inp.mem, inp.w, inp.e),
          HostServicesRule("ok", inp.services)}
         \cup {HostDiskRule("ok", inp.disks[i], inp.w, inp.e) :
                 i \in 1..Len(inp.disks)}
    ELSE {FwCpuRule("ok", inp.cpu, inp.max_cpu, inp.w, inp.e),
          FwMemoryRule("ok", inp.mem, inp.w, inp.e),
          FwClusterRule("ok", inp.cluster_state),
          FwErrorsRule("ok", inp.errors),
          FwHeavyRule("ok", inp.heavy)}

MaxSeverity(S) == CHOOSE s \in S \cup {"ok"} :
                      \A t \in S \cup {"ok"} : Rank(s) >= Rank(t)

Reverse(q) == [i \in 1..Len(q) |-> q[Len(q) + 1 - i]]

\* the rules evaluated by sequential mutation in the opposite order
ReverseOrderSeverity ==
    IF agent = "host"
    THEN HostCpuRule(
             HostMemoryRule(
                 HostDiskLoop(HostServicesRule("ok", inp.services),
                              Reverse(inp.disks), inp.w, inp.e),
                 inp.mem, inp.w, inp.e),
             inp.cpu, inp.w, inp.e)
    ELSE FwCpuRule(
             FwMemoryRule(
                 FwClusterRule(
                     FwErrorsRule(FwHeavyRule("ok", inp.heavy), inp.errors),
                     inp.cluster_state),
                 inp.mem, inp.w, inp.e),
             inp.cpu, inp.max_cpu, inp.w, inp.e)

\* C3: the severity returned by the sequential mutation is the maximum of
\* the severities the rules give on their own from 'ok', and evaluating the
\* rules and the disk entries in the opposite order returns the same value.
C3_MaxOfRules ==
    Returned => /\ severity = MaxSeverity(RuleSeverities)
                /\ severity = ReverseOrderSeverity

\* an early rule gave 'error' and a later one on its own gives 'warning'
C3_Witness ==
    /\ Returned /\ agent = "host" /\ severity = "error"
    /\ RuleSeverities = {"ok", "warning", "error"}
    /\ HostCpuRule("ok", inp.cpu, inp.w, inp.e) = "error"
    /\ Len(inp.disks) = 2
    /\ HostDiskRule("ok", inp.disks[2], inp.w, inp.e) = "warning"

HostReaches(t) ==
    \/ inp.cpu >= t
    \/ inp.mem >= t
    \/ \E i \in 1..Len(inp.disks) : inp.disks[i].used_percent >= t

\* C4: host classifier with warning <= error: 'error' exactly when CPU,
\* memory or some disk is >= the error threshold or a service is listed;
\* otherwise 'warning' exactly when CPU, memory or some disk is >= the
\* warning threshold; otherwise 'ok'. A value equal to a threshold reaches
\* it: CPU 96 with (85,95) is error, CPU 87 with memory 10 is warning.
C4_HostClassifier ==
    (Returned /\ agent = "host" /\ inp.w <= inp.e) =>
        /\ severity = (IF HostReaches(inp.e) \/ inp.services # <<>>
                       THEN "error"
                       ELSE IF HostReaches(inp.w) THEN "warning" ELSE "ok")
        /\ (inp.cpu = 96 /\ inp.w = 85 /\ inp.e = 95) => severity = "error"
        /\ (/\ inp.cpu = 87 /\ inp.mem = 10 /\ inp.disks = <<>>
            /\ inp.services = <<>> /\ inp.w = 85 /\ inp.e = 95)
               => severity = "warning"
        /\ (inp.cpu = inp.w /\ inp.w < inp.e) => severity # "ok"

\* CPU exactly at the warning threshold and nothing else raised
C4_Witness ==
    /\ Returned /\ agent = "host" /\ severity = "warning"
    /\ inp.cpu = 85 /\ inp.w = 85 /\ inp.e = 95
    /\ inp.mem = 10 /\ inp.disks = <<>> /\ inp.services = <<>>

FwReaches(t) == inp.cpu >= t \/ inp.max_cpu >= t \/ inp.mem >= t

FwUnconditional ==
    \/ Lower(inp.cluster_state) \in {"down", "problem", "error", "unknown"}
    \/ inp.errors # <<>>
    \/ inp.heavy # <<>>

\* C5: appliance classifier with warning <= error: 'error' exactly when
\* average CPU, max CPU or memory is >= the error threshold, or the cluster
\* state lower-cased is down/problem/error/unknown, or a device error or a
\* heavy connection is listed; otherwise 'warning' exactly when average CPU,
\* max CPU or memory is >= the warning threshold; otherwise 'ok'. The state,
\* error and heavy-connection rules give 'error' for every threshold pair.
C5_FwClassifier ==
    (Returned /\ agent = "fw") =>
        /\ inp.w <= inp.e =>
             severity = (IF FwReaches(inp.e) \/ FwUnconditional THEN "error"
                         ELSE IF FwReaches(inp.w) THEN "warning" ELSE "ok")
        /\ FwUnconditional => severity = "error"
        /\ (inp.max_cpu >= inp.e /\ inp.cpu < inp.w) => severity = "error"

\* one saturated core, average below the warning threshold, nothing else
C5_Witness ==
    /\ Returned /\ agent = "fw" /\ severity = "error"
    /\ inp.max_cpu = 96 /\ inp.cpu = 10 /\ inp.mem = 10
    /\ inp.w = 85 /\ inp.e = 95 /\ ~FwUnconditional


(***************************************************************************)
(* Cluster agent (monitor_ocp.py): the classification of one workload      *)
(* object.  A JSON object is a function from its keys; dict.get(k, d) is   *)
(* Get.                                                                    *)
(***************************************************************************)
MaxReplicas == 3

Get(d, k, default) == IF k \in DOMAIN d THEN d[k] ELSE default

\* RESOURCES, in its insertion order: project name and resource kind
RESOURCES ==
    << [project_name |-> "Deployments", k8s_kind |-> "deployments"],
       [project_name |-> "Statefulsets", k8s_kind |-> "statefulsets"],
       [project_name |-> "Daemonsets", k8s_kind |-> "daemonsets"] >>

Kinds == {RESOURCES[i].k8s_kind : i \in 1..Len(RESOURCES)}

\* str() of a non-negative integer
DigitChar(d) ==
    CASE d = 0 -> "0" [] d = 1 -> "1" [] d = 2 -> "2" [] d = 3 -> "3"
      [] d = 4 -> "4" [] d = 5 -> "5" [] d = 6 -> "6" [] d = 7 -> "7"
      [] d = 8 -> "8" [] d = 9 -> "9"

RECURSIVE IntToStr(_)
IntToStr(n) ==
    IF n < 10 THEN DigitChar(n)
    ELSE IntToStr(n \div 10) \o DigitChar(n % 10)

\* the pair read with spec.get('replicas', 0) and a current count of 1 when
\* the field is absent
ReplicaCountsOtherDefaults(kind, spec, status) ==
    CASE kind = "deployments" ->
           <<Get(spec, "replicas", 0), Get(status, "availableReplicas", 1)>>
      [] kind = "statefulsets" ->
           <<Get(spec, "replicas", 0), Get(status, "readyReplicas", 1)>>
      [] kind = "daemonsets" ->
           <<Get(status, "desiredNumberScheduled", 0),
             Get(status, "numberReady", 0)>>
      [] OTHER -> <<0, 0>>

\* the (desired, current) pair calculate_status reads for a kind
ReplicaCounts(kind, spec, status) ==
    CASE kind = "deployments" ->
           <<Get(spec, "replicas", 1), Get(status, "availableReplicas", 0)>>
      [] kind = "statefulsets" ->
           <<Get(spec, "replicas", 1), Get(status, "readyReplicas", 0)>>
      [] kind = "daemonsets" ->
           <<Get(status, "desiredNumberScheduled", 0),
             Get(status, "numberReady", 0)>>
      [] OTHER -> <<0, 0>>

StatusLogicStrict(desired, current) ==
    IF desired > 0
    THEN IF current > desired THEN <<"Running", "ok">>
         ELSE IF current = 0 THEN <<"Down", "error">>
         ELSE <<"Degraded", "warning">>
    ELSE <<"ScaledDown", "warning">>

StatusLogic(desired, current) ==
    IF desired > 0
    THEN IF current >= desired THEN <<"Running", "ok">>
         ELSE IF current = 0 THEN <<"Down", "error">>
         ELSE <<"Degraded", "warning">>
    ELSE <<"ScaledDown", "warning">>

\* returns (status_str, severity, desired, current)
calculate_status(kind, spec, status) ==
    LET dc == ReplicaCounts(kind, spec, status)
        st == StatusLogic(dc[1], dc[2])
    IN  <<st[1], st[2], dc[1], dc[2]>>

\* the resource_entry collect_and_push builds for one item of a kind
ResourceEntry(k8s_kind, item) ==
    LET metadata == Get(item, "metadata", EmptyDict)
        status_obj == Get(item, "status", EmptyDict)
        spec_obj == Get(item, "spec", EmptyDict)
        name == Get(metadata, "name", "None")
        cs == calculate_status(k8s_kind, spec_obj, status_obj)
    IN  [Id |-> name,
         Name |-> name,
         Namespace |-> Get(metadata, "namespace", "None"),
         Status |-> cs[1],
         Severity |-> cs[2],
         ClusterCreatedAt |-> Get(metadata, "creationTimestamp", "None"),
         Replicas |-> IntToStr(cs[4]) \o "/" \o IntToStr(cs[3])]

(***************************************************************************)
(* SpecStatus: one item of `oc get <kind> -o json`, classified and turned  *)
(* into its resource entry.                                                *)
(***************************************************************************)
WorkloadNames == {"web", "db"}
Namespaces == {"prod", "test"}
ReplicaValues == 0..MaxReplicas

Metadatas ==
    [name : WorkloadNames, namespace : Namespaces,
     creationTimestamp : {"2025-03-12T00:32:50Z"}]

\* a dict with the key k bound to a value of V, or without the key
Optional(k, V) == {EmptyDict} \cup {[x \in {k} |-> v] : v \in V}

Merge(a, b) ==
    [x \in DOMAIN a \cup DOMAIN b |-> IF x \in DOMAIN a THEN a[x] ELSE b[x]]

\* the spec and status objects the API server returns for a kind
SpecObjects(kind) ==
    IF kind = "daemonsets" THEN {EmptyDict}
    ELSE Optional("replicas", ReplicaValues)

StatusObjects(kind) ==
    CASE kind = "deployments" -> Optional("availableReplicas", ReplicaValues)
      [] kind = "statefulsets" -> Optional("readyReplicas", ReplicaValues)
      [] kind = "daemonsets" ->
           {Merge(a, b) : a \in Optional("desiredNumberScheduled", ReplicaValues),
                          b \in Optional("numberReady", ReplicaValues)}

Items(kind) ==
    [metadata : Metadatas, spec : SpecObjects(kind),
     status : StatusObjects(kind)]

InitStatus ==
    /\ agent = "ocp_item"
    /\ \E kind \in Kinds : \E item \in Items(kind) :
           inp = [k8s_kind |-> kind, item |-> item]
    /\ pc = "item"
    /\ severity = "info"
    /\ di = 1
    /\ NoRunState

\* status_str, severity, desired, current = calculate_status(...)
ItemCalculateStatus ==
    /\ agent = "ocp_item" /\ pc = "item"
    /\ severity' = calculate_status(inp.k8s_kind, inp.item.spec,
                                    inp.item.status)[2]
    /\ pc' = "entry"
    /\ UNCHANGED <<agent, inp, di, runVars>>

\* resource_entry = {...}; resource_list.append(resource_entry)
ItemAppendEntry ==
    /\ agent = "ocp_item" /\ pc = "entry"
    /\ payload' = ResourceEntry(inp.k8s_kind, inp.item)
    /\ resource_list' = Append(resource_list, payload')
    /\ pc' = "appended"
    /\ UNCHANGED <<agent, inp, severity, di, kindIdx, attempts, services,
                   raised, printed, exitCode>>
    /\ UNCHANGED <<locals, stdout>>

NextStatus ==
    \/ ItemCalculateStatus
    \/ ItemAppendEntry

SpecStatus == InitStatus /\ [][NextStatus]_vars

\* the counts the item carries, read as the claim reads them
ItemDesired ==
    IF inp.k8s_kind = "daemonsets"
    THEN Get(inp.item.status, "desiredNumberScheduled", 0)
    ELSE Get(inp.item.spec, "replicas", 1)

ItemCurrent ==
    CASE inp.k8s_kind = "deployments" ->
           Get(inp.item.status, "availableReplicas", 0)
      [] inp.k8s_kind = "statefulsets" ->
           Get(inp.item.status, "readyReplicas", 0)
      [] inp.k8s_kind = "daemonsets" ->
           Get(inp.item.status, "numberReady", 0)

ExpectedStatus(desired, current) ==
    CASE desired > 0 /\ current >= desired -> <<"Running", "ok">>
      [] desired > 0 /\ current = 0 -> <<"Down", "error">>
      [] desired > 0 /\ 0 < current /\ current < desired ->
           <<"Degraded", "warning">>
      [] desired = 0 -> <<"ScaledDown", "warning">>

\* C6: for every kind and all counts desired, current >= 0 the entry has
\* Running/ok when desired>0 and current>=desired, Down/error when desired>0
\* and current=0, Degraded/warning when desired>0 and 0<current<desired,
\* ScaledDown/warning when desired=0, and Replicas '<current>/<desired>'
\* (Deployment replicas=3, available=0: Down, error, '0/3').
C6_StatusTable ==
    (agent = "ocp_item" /\ pc = "appended") =>
        /\ <<payload.Status, payload.Severity>>
              = ExpectedStatus(ItemDesired, ItemCurrent)
        /\ payload.Severity = severity
        /\ payload.Replicas
              = IntToStr(ItemCurrent) \o "/" \o IntToStr(ItemDesired)
        /\ (/\ inp.k8s_kind = "deployments"
            /\ inp.item.spec = [replicas |-> 3]
            /\ inp.item.status = [availableReplicas |-> 0])
              => /\ payload.Status = "Down" /\ payload.Severity = "error"
                 /\ payload.Replicas = "0/3"
        /\ (/\ inp.k8s_kind = "daemonsets"
            /\ Get(inp.item.status, "desiredNumberScheduled", 0) = 0)
              => payload.Status = "ScaledDown" /\ payload.Severity = "warning"

\* a StatefulSet with exactly as many ready replicas as desired
C6_Witness ==
    /\ agent = "ocp_item" /\ pc = "appended"
    /\ inp.k8s_kind = "statefulsets"
    /\ inp.item.spec = [replicas |-> 2]
    /\ inp.item.status = [readyReplicas |-> 2]
    /\ payload.Status = "Running" /\ payload.Replicas = "2/2"


(***************************************************************************)
(* Payload builders.  Usage values are floats in the code: a whole value   *)
(* n prints as "n.0".                                                      *)
(***************************************************************************)
FloatStr(n) == IntToStr(n) \o ".0"

RECURSIVE Join(_, _)
Join(strs, sep) ==
    IF strs = <<>> THEN ""
    ELSE IF Len(strs) = 1 THEN strs[1]
    ELSE strs[1] \o sep \o Join(Tail(strs), sep)

format_disks_string(disks) ==
    IF disks = <<>> THEN "No disks found"
    ELSE Join([i \in 1..Len(disks) |->
                 disks[i].mount_point \o " ("
                   \o FloatStr(disks[i].used_percent) \o "%)"], ", ")

\* format_services_string that names the first service only
format_services_stringFirstOnly(failed_services) ==
    IF failed_services # <<>>
    THEN "Down: " \o failed_services[1]
    ELSE "All Enabled Services Running"

format_services_string(failed_services) ==
    IF failed_services # <<>>
    THEN "Down: " \o Join(failed_services, ", ")
    ELSE "All Enabled Services Running"

HostBuildPayload(cpu, mem, disks, failed_services, sev, project_name, system_name, hostname) ==
    [projectName |-> project_name,
     systemName |-> system_name,
     payload |-> [Id |-> hostname,
                  Name |-> hostname,
                  CPU |-> FloatStr(cpu) \o "%",
                  Memory |-> FloatStr(mem) \o "%",
                  Disks |-> format_disks_string(disks),
                  Services |-> format_services_string(failed_services),
                  Severity |-> sev]]

\* f"{x:.3f}" of round(num / den, 3), for num >= 0 and den > 0 (the byte
\* counts of the model are small: 1000 * num stays below 2^31)
Fixed3(num, den) ==
    LET milli == (1000 * num + den \div 2) \div den
        frac == milli % 1000
    IN  IntToStr(milli \div 1000) \o "."
          \o (IF frac < 10 THEN "00" ELSE IF frac < 100 THEN "0" ELSE "")
          \o IntToStr(frac)

GiB == 1073741824

FwBuildPayload(cpu, heavy_cpus, mem, total_mem_bytes, free_mem_bytes, cluster_state, errors, heavy_connections, sev, project_name, system_name, hostname) ==
    [projectName |-> project_name,
     systemName |-> system_name,
     payload |->
       [Id |-> hostname,
        Name |-> hostname,
        CPU |-> FloatStr(cpu) \o "%"
                  \o (IF heavy_cpus # <<>>
                      THEN " (Heavy: " \o Join(heavy_cpus, ", ") \o ")"
                      ELSE ""),
        Memory |-> "Free: " \o Fixed3(free_mem_bytes, GiB) \o "GB ("
                     \o (IF total_mem_bytes > 0
                         THEN Fixed3(100 * free_mem_bytes, total_mem_bytes)
                         ELSE "0.000") \o "%)",
        Errors |-> IF errors # <<>> THEN Join(errors, ", ") ELSE "No Errors",
        Severity |-> sev]
       @@ ("Cluster State" :> cluster_state)
       @@ ("Heavy Connections" :>
             IF heavy_connections # <<>>
             THEN IntToStr(Len(heavy_connections)) \o " found" ELSE "None")]

(***************************************************************************)
(* A call f(a1, .., an): Python raises TypeError when the number of       *)
(* positional arguments is not the number of parameters of f.             *)
(***************************************************************************)
FwCalculateSeverityParams == 8
FwBuildPayloadParams == 11

BindsAll(args, nparams) == Len(args) = nparams

(***************************************************************************)
(* post_metrics (the two post_system_metrics.py hold the same function).   *)
(* What urlopen and the backend do is the input `outcome`.                 *)
(***************************************************************************)
UrlopenOutcomes ==
    {"ok_empty",      \* 2xx, empty body
     "ok_json",       \* 2xx, body is JSON
     "ok_text",       \* 2xx, body is not JSON
     "http_error",    \* urllib.error.HTTPError: a 4xx / 5xx status
     "url_error",     \* urllib.error.URLError: refused, DNS, connect timeout
     "read_timeout"}  \* socket.timeout while the response is read

TransportFailures == {"http_error", "url_error", "read_timeout"}
Accepted == {"ok_empty", "ok_json", "ok_text"}

post_metricsSwallowingHttpError(outcome) ==
    CASE outcome \in {"ok_empty", "http_error"} ->
           [raised |-> "none", value |-> "status_success"]
      [] outcome = "ok_json" -> [raised |-> "none", value |-> "parsed_json"]
      [] outcome = "ok_text" -> [raised |-> "JSONDecodeError", value |-> ""]
      [] outcome = "url_error" -> [raised |-> "Exception", value |-> ""]
      [] outcome = "read_timeout" -> [raised |-> "timeout", value |-> ""]

\* the value returned, or the class of the exception that leaves the call
post_metrics(outcome) ==
    CASE outcome = "ok_empty" ->
           [raised |-> "none", value |-> "status_success"]
      [] outcome = "ok_json" -> [raised |-> "none", value |-> "parsed_json"]
      [] outcome = "ok_text" -> [raised |-> "JSONDecodeError", value |-> ""]
      [] outcome = "http_error" -> [raised |-> "Exception", value |-> ""]
      [] outcome = "url_error" -> [raised |-> "Exception", value |-> ""]
      [] outcome = "read_timeout" -> [raised |-> "timeout", value |-> ""]

UrlopenCallsRetrying(outcome) == IF outcome \in TransportFailures THEN 3 ELSE 1

\* the urlopen calls one call of post_metrics makes
UrlopenCalls(outcome) == 1

\* isinstance(e, urllib.error.URLError)
IsURLError(exc) == exc \in {"URLError", "HTTPError"}

(***************************************************************************)
(* Raw text.  A Python str read from a probe is a tuple of characters, so  *)
(* that startswith, endswith, rstrip and float are computed on the text.   *)
(* Text(s) is the same string as a TLA+ string, the form in which the      *)
(* classifier and the payload builders of this module take their names.    *)
(***************************************************************************)
RECURSIVE Text(_)
Text(s) ==
    IF s = <<>> THEN ""
    ELSE IF Len(s) = 1 THEN s[1]
    ELSE Text(SubSeq(s, 1, Len(s) \div 2))
           \o Text(SubSeq(s, Len(s) \div 2 + 1, Len(s)))

StartsWith(s, prefix) ==
    /\ Len(prefix) <= Len(s)
    /\ SubSeq(s, 1, Len(prefix)) = prefix

\* s.rstrip(ch)
RECURSIVE RStrip(_, _)
RStrip(s, ch) ==
    IF s # <<>> /\ s[Len(s)] = ch THEN RStrip(SubSeq(s, 1, Len(s) - 1), ch)
    ELSE s

Digits == <<"0", "1", "2", "3", "4", "5", "6", "7", "8", "9">>
IsDigit(c) == \E d \in 1..Len(Digits) : Digits[d] = c

RECURSIVE DecimalValue(_)
DecimalValue(s) ==
    IF s = <<>> THEN 0
    ELSE Len(Digits) * DecimalValue(SubSeq(s, 1, Len(s) - 1))
         + (CHOOSE d \in 1..Len(Digits) : Digits[d] = s[Len(s)]) - 1

\* float(s) on the texts of the model, which carry no sign, point or
\* exponent: the value of a non-empty run of digits, ValueError otherwise
ParseFloat(s) ==
    IF s # <<>> /\ \A i \in 1..Len(s) : IsDigit(s[i])
    THEN [raised |-> "none", value |-> DecimalValue(s)]
    ELSE [raised |-> "ValueError", value |-> 0]

(***************************************************************************)
(* Exceptions.  A call yields [raised, value]: raised is "none" and value  *)
(* the returned value, or raised names the exception that left the call.   *)
(***************************************************************************)
Returns(v) == [raised |-> "none", value |-> v]
Raises(exc) == [raised |-> exc, value |-> <<>>]

\* an exception is handled by a try statement with these except clauses:
\* isinstance(exc, cls) holds for one of the classes they name
Caught(exc, clauses) ==
    \E cls \in clauses :
        \/ cls = exc
        \/ cls = "Exception"
        \/ cls = "OSError" /\ exc \in {"FileNotFoundError", "PermissionError"}

\* an omitted argument: a parameter holds None or Some(value)
None == {}
Some(v) == {v}
ValueOf(arg) == CHOOSE v \in arg : TRUE

(***************************************************************************)
(* SpecRun: one run of a posting agent.                                    *)
(*   host_post  linux_agent/post_system_metrics.py main                    *)
(*   fw_post    checkpoint_fw_agent/post_system_metrics.py main            *)
(*   ocp        ocp/monitor_ocp.py collect_and_push                        *)
(***************************************************************************)
MaxItems == 2

RunCpuValues == {10, 87, 96}
RunMemValues == {10, 96}
\* (used_percent, total_bytes, free_bytes) as get_memory_usage returns them
RunMemProbes == {<<0, 0, 0>>, <<10, 1000, 900>>, <<96, 1000, 40>>}

HostRunInputs ==
    {x \in [cpu : RunCpuValues, mem : RunMemValues, disks : DiskLists,
            failed : ServiceLists, check_stopped : BOOLEAN,
            stopped : ServiceLists, w : {85}, e : {95},
            project_name : {"Workstations"}, system_name : {"Monitoring"},
            hostname : {"host01"}, quiet : BOOLEAN,
            backend : UrlopenOutcomes] :
       ~x.check_stopped => x.stopped = <<>>}

FwRunInputs ==
    [cpu : RunCpuValues, max_cpu : RunCpuValues, heavy_cpus : {<<>>},
     mem : RunMemProbes, cluster_state : ClusterStates, errors : ErrorLists,
     w : {85}, e : {95},
     project_name : {"Firewalls"}, system_name : {"Checkpoint"},
     hostname : {"fw01"}, quiet : BOOLEAN, backend : UrlopenOutcomes]

Range(q) == {q[i] : i \in 1..Len(q)}

\* list(set(xs)): the distinct elements of xs, in an order the set decides
ListsOfSet(xs) ==
    {q \in SeqsUpTo(Range(xs), Cardinality(Range(xs))) :
       Len(q) = Cardinality(Range(xs)) /\ Range(q) = Range(xs)}

SYSTEM_NAME == "OpenShift"

\* json.dumps(obj): a string, not the object
JsonDumps(obj) == [json_text_of |-> obj]

\* the items `oc get <kind> --all-namespaces -o json` lists in a run: one
\* replica desired, none or one current, the same name in two namespaces
RunItems(kind) ==
    [metadata : {m \in Metadatas : m.name = "web"},
     spec : IF kind = "daemonsets" THEN {EmptyDict} ELSE {[replicas |-> 1]},
     status :
       CASE kind = "deployments" -> {[availableReplicas |-> c] : c \in {0, 1}}
         [] kind = "statefulsets" -> {[readyReplicas |-> c] : c \in {0, 1}}
         [] kind = "daemonsets" ->
              {[desiredNumberScheduled |-> 1, numberReady |-> c] :
                 c \in {0, 1}}]

\* the JSON documents `oc get <kind>` prints
RunOcResults(kind) ==
    {[kind |-> "List"]}
    \cup {[kind |-> "List", items |-> its] :
            its \in SeqsUpTo(RunItems(kind), MaxItems)}

\* what the two commands of run_oc do: `oc version --client` runs, exits
\* non-zero or finds no oc; the `oc get` command exits zero or non-zero;
\* its output is Some(document), or None when it is not JSON
OcProbes(kind) ==
    {[oc_version |-> "FileNotFoundError", command |-> "none", stdout |-> None],
     [oc_version |-> "none", command |-> "CalledProcessError", stdout |-> None],
     [oc_version |-> "none", command |-> "none", stdout |-> None],
     [oc_version |-> "CalledProcessError", command |-> "none",
      stdout |-> Some([kind |-> "List"])]}
    \cup {[oc_version |-> "none", command |-> "none", stdout |-> Some(doc)] :
            doc \in RunOcResults(kind)}

\* the exception met while probing: none when oc printed a document
ProbeFailure(probe) ==
    IF probe.oc_version = "FileNotFoundError" THEN "FileNotFoundError"
    ELSE IF probe.command # "none" THEN probe.command
    ELSE IF probe.stdout = None THEN "JSONDecodeError"
    ELSE "none"

\* run_oc without the handler of line 33
run_ocCommandErrorEscapes(probe) ==
    IF probe.oc_version # "none"
       /\ ~Caught(probe.oc_version, {"CalledProcessError"})
    THEN IF Caught(probe.oc_version, {"FileNotFoundError"})
         THEN Returns(EmptyDict)
         ELSE Raises(probe.oc_version)
    ELSE IF probe.command # "none" THEN Raises(probe.command)
    ELSE IF probe.stdout = None
    THEN IF Caught("JSONDecodeError", {"JSONDecodeError"})
         THEN Returns(EmptyDict)
         ELSE Raises("JSONDecodeError")
    ELSE Returns(ValueOf(probe.stdout))

\* run_oc: the parsed document, or None (EmptyDict here, as falsy as None)
\* when oc is missing, the command fails or its output is not JSON
run_oc(probe) ==
    IF probe.oc_version # "none"
       /\ ~Caught(probe.oc_version, {"CalledProcessError"})
    THEN IF Caught(probe.oc_version, {"FileNotFoundError"})
         THEN Returns(EmptyDict)
         ELSE Raises(probe.oc_version)
    ELSE IF probe.command # "none"
    THEN IF Caught(probe.command, {"CalledProcessError", "JSONDecodeError"})
         THEN Returns(EmptyDict)
         ELSE Raises(probe.command)
    ELSE IF probe.stdout = None
    THEN IF Caught("JSONDecodeError", {"CalledProcessError", "JSONDecodeError"})
         THEN Returns(EmptyDict)
         ELSE Raises("JSONDecodeError")
    ELSE Returns(ValueOf(probe.stdout))

\* what requests.post does: a response with a 2xx status, a response with
\* another status, or an exception
RequestsOutcomes == {"2xx", "non2xx", "exception"}

\* resource[key] raises KeyError
KeyErrorOn(resource, key) == key \notin DOMAIN resource

\* lines 123-128: TRUE when an exception leaves the try statement
PostEscapes(resource, outcome) ==
    LET try_raises ==
            CASE outcome = "2xx" -> FALSE
              [] outcome = "non2xx" -> KeyErrorOn(resource, "name")
              [] outcome = "exception" -> TRUE
    IN  try_raises /\ KeyErrorOn(resource, "name")

InitRun ==
    /\ \/ agent = "host_post" /\ inp \in HostRunInputs
       \/ agent = "fw_post" /\ inp \in FwRunInputs
       \/ agent = "ocp" /\ inp = EmptyDict
    /\ pc = IF agent = "ocp" THEN "run_oc" ELSE "collect"
    /\ severity = "unset"
    /\ di = 1
    /\ payload = EmptyDict
    /\ kindIdx = IF agent = "ocp" THEN 1 ELSE 0
    /\ resource_list = <<>>
    /\ attempts = IF agent = "ocp" THEN [k \in 1..Len(RESOURCES) |-> <<>>]
                  ELSE << <<0>> >>
    /\ services = <<>>
    /\ raised = "none"
    /\ printed = {}
    /\ exitCode = -1
    /\ locals = IF agent = "ocp" THEN [probes |-> <<>>] ELSE EmptyDict
    /\ stdout = <<>>

\* main, "Collect metrics": the probes have returned inp; the host agent
\* combines the failed and the stopped services
RunCollect ==
    /\ agent \in {"host_post", "fw_post"} /\ pc = "collect"
    /\ IF agent = "host_post" /\ inp.check_stopped
       THEN services' \in ListsOfSet(inp.failed \o inp.stopped)
       ELSE IF agent = "host_post" THEN services' = inp.failed
       ELSE services' = <<>>
    /\ printed' = IF inp.quiet THEN printed ELSE printed \cup {"Collecting"}
    /\ pc' = "classify"
    /\ UNCHANGED <<agent, inp, severity, di, payload, kindIdx, resource_list,
                   attempts, raised, exitCode>>
    /\ UNCHANGED <<locals, stdout>>

\* main, "Calculate severity"
RunClassify ==
    /\ agent \in {"host_post", "fw_post"} /\ pc = "classify"
    /\ IF agent = "host_post"
       THEN /\ severity' = HostCalculateSeverity(inp.cpu, inp.mem, inp.disks,
                                                 services, inp.w, inp.e)
            /\ raised' = raised
            /\ pc' = "build"
       ELSE LET args == <<inp.cpu, inp.max_cpu, inp.mem[1], inp.cluster_state,
                          inp.errors, inp.w, inp.e>>
            IN  IF BindsAll(args, FwCalculateSeverityParams)
                THEN /\ severity' = FwCalculateSeverity(
                                        args[1], args[2], args[3], args[4],
                                        args[5], args[6], args[7], args[8])
                     /\ raised' = raised
                     /\ pc' = "build"
                ELSE /\ severity' = severity
                     /\ raised' = "TypeError"
                     /\ pc' = "except"
    /\ UNCHANGED <<agent, inp, di, payload, kindIdx, resource_list, attempts,
                   services, printed, exitCode>>
    /\ UNCHANGED <<locals, stdout>>

\* main, "Build payload"
RunBuild ==
    /\ agent \in {"host_post", "fw_post"} /\ pc = "build"
    /\ IF agent = "host_post"
       THEN /\ payload' = HostBuildPayload(inp.cpu, inp.mem, inp.disks,
                              services, severity, inp.project_name,
                              inp.system_name, inp.hostname)
            /\ raised' = raised
            /\ pc' = "post"
       ELSE LET args == <<inp.cpu, inp.heavy_cpus, inp.mem[1], inp.mem[2],
                          inp.mem[3], inp.cluster_state, inp.errors, severity,
                          inp.project_name, inp.system_name>>
            IN  IF BindsAll(args, FwBuildPayloadParams)
                THEN /\ payload' = FwBuildPayload(
                                       args[1], args[2], args[3], args[4],
                                       args[5], args[6], args[7], args[8],
                                       args[9], args[10], args[11],
                                       inp.hostname)
                     /\ raised' = raised
                     /\ pc' = "post"
                ELSE /\ payload' = payload
                     /\ raised' = "TypeError"
                     /\ pc' = "except"
    /\ printed' = IF inp.quiet \/ pc' = "except" THEN printed
                  ELSE printed \cup {"Posting to API"}
    /\ UNCHANGED <<agent, inp, severity, di, kindIdx, resource_list, attempts,
                   services, exitCode>>
    /\ UNCHANGED <<locals, stdout>>

\* main, "Post to API": response = post_metrics(payload, api_url, timeout)
RunPost ==
    /\ agent \in {"host_post", "fw_post"} /\ pc = "post"
    /\ attempts' = [attempts EXCEPT ![1][1] = @ + UrlopenCalls(inp.backend)]
    /\ raised' = post_metrics(inp.backend).raised
    /\ pc' = IF raised' = "none" THEN "posted" ELSE "except"
    /\ UNCHANGED <<agent, inp, severity, di, payload, kindIdx, resource_list,
                   services, printed, exitCode>>
    /\ UNCHANGED <<locals, stdout>>

\* main, after post_metrics has returned: the success message, return
RunSuccess ==
    /\ agent \in {"host_post", "fw_post"} /\ pc = "posted"
    /\ printed' = IF inp.quiet THEN printed
                  ELSE printed \cup {"[SUCCESS]", "API Response"}
    /\ exitCode' = 0
    /\ pc' = "exit"
    /\ UNCHANGED <<agent, inp, severity, di, payload, kindIdx, resource_list,
                   attempts, services, raised>>
    /\ UNCHANGED <<locals, stdout>>

\* main, the except clauses: both print and call sys.exit(1)
RunExcept ==
    /\ agent \in {"host_post", "fw_post"} /\ pc = "except"
    /\ printed' = printed \cup {IF IsURLError(raised) THEN "[NETWORK ERROR]"
                                ELSE "[ERROR]"}
    /\ exitCode' = 1
    /\ pc' = "exit"
    /\ UNCHANGED <<agent, inp, severity, di, payload, kindIdx, resource_list,
                   attempts, services, raised>>
    /\ UNCHANGED <<locals, stdout>>

\* the position after the kind at kindIdx: the next kind, or the end
AfterKind ==
    /\ kindIdx' = kindIdx + 1
    /\ pc' = IF kindIdx = Len(RESOURCES) THEN "exit" ELSE "run_oc"
    /\ exitCode' = IF kindIdx = Len(RESOURCES) THEN 0 ELSE exitCode

\* collect_and_push, lines 81-114: run_oc for the kind, and the entries
OcpCollect ==
    /\ agent = "ocp" /\ pc = "run_oc"
    /\ \E probe \in OcProbes(RESOURCES[kindIdx].k8s_kind) :
         LET call == run_oc(probe)
             data == call.value
             items == Get(data, "items", <<>>)
         IN  /\ locals' = [locals EXCEPT
                             !.probes = Append(@,
                                 [failure |-> ProbeFailure(probe),
                                  items |-> IF probe.stdout = None THEN 0
                                            ELSE Len(Get(ValueOf(probe.stdout),
                                                         "items", <<>>))])]
             /\ IF call.raised # "none"
                THEN \* the exception leaves collect_and_push
                     /\ raised' = call.raised
                     /\ printed' = printed \cup {"Traceback"}
                     /\ exitCode' = 1
                     /\ pc' = "exit"
                     /\ UNCHANGED <<kindIdx, resource_list, attempts, di>>
                ELSE IF DOMAIN data = {}
                THEN /\ printed' = printed \cup {"No data found"}
                     /\ AfterKind
                     /\ UNCHANGED <<resource_list, attempts, di, raised>>
                ELSE /\ resource_list' =
                          [i \in 1..Len(items) |->
                             ResourceEntry(RESOURCES[kindIdx].k8s_kind,
                                           items[i])]
                     /\ attempts' = [attempts EXCEPT
                                       ![kindIdx] = [i \in 1..Len(items) |-> 0]]
                     /\ di' = 1
                     /\ printed' = printed \cup {"Found resources"}
                     /\ pc' = "post"
                     /\ UNCHANGED <<kindIdx, exitCode, raised>>
    /\ UNCHANGED <<agent, inp, severity, payload, services, stdout>>

\* collect_and_push, lines 116-128: one iteration of the posting loop
OcpPost ==
    /\ agent = "ocp" /\ pc = "post" /\ di <= Len(resource_list)
    /\ \E outcome \in RequestsOutcomes :
         /\ payload' = [systemName |-> SYSTEM_NAME,
                        projectName |-> RESOURCES[kindIdx].project_name,
                        payload |-> JsonDumps(resource_list[di])]
         /\ attempts' = [attempts EXCEPT ![kindIdx][di] = @ + 1]
         /\ IF PostEscapes(resource_list[di], outcome)
            THEN /\ raised' = "KeyError"
                 /\ printed' = printed \cup {"Traceback"}
                 /\ exitCode' = 1
                 /\ pc' = "exit"
                 /\ di' = di
            ELSE /\ raised' = raised
                 /\ printed' = IF outcome = "2xx" THEN printed
                               ELSE printed \cup {"Failed to post"}
                 /\ exitCode' = exitCode
                 /\ pc' = pc
                 /\ di' = di + 1
    /\ UNCHANGED <<agent, inp, severity, kindIdx, resource_list, services>>
    /\ UNCHANGED <<locals, stdout>>

\* collect_and_push, line 130: the posting loop of the kind is over
OcpKindDone ==
    /\ agent = "ocp" /\ pc = "post" /\ di > Len(resource_list)
    /\ printed' = printed \cup {"Finished posting"}
    /\ AfterKind
    /\ UNCHANGED <<agent, inp, severity, di, payload, resource_list, attempts,
                   services, raised>>
    /\ UNCHANGED <<locals, stdout>>

NextRun ==
    \/ RunCollect
    \/ RunClassify
    \/ RunBuild
    \/ RunPost
    \/ RunSuccess
    \/ RunExcept
    \/ OcpCollect
    \/ OcpPost
    \/ OcpKindDone

SpecRun == InitRun /\ [][NextRun]_vars

(***************************************************************************)
(* Claims about the runs (SpecRun).                                        *)
(***************************************************************************)
Ended == pc = "exit"

\* C7: best-effort fan-out: when collect_and_push has ended, every kind has
\* been visited and every resource collected for a kind has had its POST
\* attempted, whatever happened to the POSTs before it.
C7_BestEffortFanOut ==
    (agent = "ocp" /\ Ended) =>
        /\ kindIdx = Len(RESOURCES) + 1
        /\ \A k \in 1..Len(RESOURCES) :
             \A i \in 1..Len(attempts[k]) : attempts[k][i] >= 1

\* C8: appliance post agent: a run whose probes have returned and whose
\* backend accepts the request ends with the payload built, exactly one
\* POST attempted and exit status 0.
C8_FwPostRunCompletes ==
    (agent = "fw_post" /\ Ended /\ inp.backend \in {"ok_empty", "ok_json"}) =>
        /\ DOMAIN payload # {}
        /\ attempts[1][1] = 1
        /\ exitCode = 0

\* C9 as claimed: a transport failure ends the run with a non-zero exit and
\* no success message, a POST that returns normally (a 2xx answer) ends it
\* without a non-zero exit, and a run has no other outcome.
C9_TransportOrSuccess ==
    (agent = "host_post" /\ Ended) =>
        /\ inp.backend \in TransportFailures =>
             exitCode # 0 /\ "[SUCCESS]" \notin printed
        /\ inp.backend \in Accepted => exitCode = 0
        /\ inp.backend \in TransportFailures \cup Accepted

\* C9 (amended): the run ends with a non-zero exit and no success message
\* when the POST fails in transport and also when a 2xx answer carries a
\* non-empty body that is not JSON; it ends with exit status 0 when the 2xx
\* answer has an empty or a JSON body; a run has no other outcome.
C9_HostPostOutcomes ==
    (agent = "host_post" /\ Ended) =>
        /\ DOMAIN payload # {}
        /\ inp.backend \in TransportFailures \cup {"ok_text"} =>
             exitCode = 1 /\ "[SUCCESS]" \notin printed
        /\ inp.backend \in {"ok_empty", "ok_json"} => exitCode = 0
        /\ exitCode \in {0, 1}

\* the response is read after the timeout: [ERROR], exit status 1
C9_Witness ==
    /\ agent = "host_post" /\ Ended /\ inp.backend = "read_timeout"
    /\ ~inp.quiet /\ "[ERROR]" \in printed /\ "[SUCCESS]" \notin printed
    /\ exitCode = 1

\* C10: no retries: at most one POST attempt is made for the payload of a
\* host post run, and at most one for each workload object the cluster
\* agent has collected, whether the attempt succeeds or fails.
C10_NoRetries ==
    agent \in {"host_post", "ocp"} =>
        \A k \in 1..Len(attempts) :
            \A i \in 1..Len(attempts[k]) : attempts[k][i] <= 1

\* a host run whose only POST attempt got an HTTP error status
C10_Witness ==
    /\ agent = "host_post" /\ Ended /\ inp.backend = "http_error"
    /\ attempts[1][1] = 1 /\ exitCode = 1

\* kinds for which run_oc has been called, and those whose probe failed
ProbedKinds == 1..Len(locals.probes)
FailedKinds == {k \in ProbedKinds : locals.probes[k].failure # "none"}

C13_Envelope ==
    (agent \in {"host_post", "fw_post", "ocp"} /\ DOMAIN payload # {}) =>
        /\ DOMAIN payload = {"projectName", "systemName", "payload"}
        /\ {"Id", "Name", "Severity"} \subseteq DOMAIN payload.payload
        /\ payload.payload.Id = payload.payload.Name
        /\ payload.payload.Severity \in Severities

(***************************************************************************)
(* Host agent, the extractors of get_system_metrics.py.  A probe result    *)
(* is a record whose `raised` is "none" when the file was read or the      *)
(* command ran, and the exception of open / subprocess.run otherwise.      *)
(* Usages are whole percents: the counters of the model divide exactly.    *)
(***************************************************************************)
Percent(part, total) == (100 * part) \div total

\* host get_cpu_usage: two readings of the first line of /proc/stat; when that
\* raises, the idle figure of the Cpu line of `top -bn1`; 0.0 when that
\* fails too or prints no such line
host_get_cpu_usage(stat, top) ==
    IF stat.raised = "none"
    THEN LET idle_delta == stat.idle2 - stat.idle1
             total_delta == stat.total2 - stat.total1
         IN  IF total_delta = 0 THEN Returns(0)
             ELSE Returns(Percent(total_delta - idle_delta, total_delta))
    ELSE IF Caught(stat.raised, {"Exception"})
    THEN IF top.raised = "none"
         THEN IF top.idle # <<>> THEN Returns(100 - top.idle[1])
              ELSE Returns(0)
         ELSE IF Caught(top.raised, {"Exception"}) THEN Returns(0)
              ELSE Raises(top.raised)
    ELSE Raises(stat.raised)

\* host get_memory_usage: the key/value lines of /proc/meminfo
host_get_memory_usage(meminfo) ==
    IF meminfo.raised = "none"
    THEN LET total == Get(meminfo.fields, "MemTotal", 0)
             available == Get(meminfo.fields, "MemAvailable", 0)
             computed == Get(meminfo.fields, "MemFree", 0)
                         + Get(meminfo.fields, "Buffers", 0)
                         + Get(meminfo.fields, "Cached", 0)
             used == total - (IF available = 0 THEN computed ELSE available)
         IN  IF total = 0 THEN Returns(0)
             ELSE Returns(Percent(used, total))
    ELSE IF Caught(meminfo.raised, {"Exception"}) THEN Returns(0)
    ELSE Raises(meminfo.raised)

exclude_types ==
    {<<"t", "m", "p", "f", "s">>, <<"d", "e", "v", "t", "m", "p", "f", "s">>, <<"s", "q", "u", "a", "s", "h", "f", "s">>, <<"o", "v", "e", "r", "l", "a", "y">>, <<"a", "u", "f", "s">>, <<"p", "r", "o", "c">>,
     <<"s", "y", "s", "f", "s">>, <<"d", "e", "v", "p", "t", "s">>, <<"c", "g", "r", "o", "u", "p">>, <<"c", "g", "r", "o", "u", "p", "2">>, <<"s", "e", "c", "u", "r", "i", "t", "y", "f", "s">>,
     <<"p", "s", "t", "o", "r", "e">>, <<"d", "e", "b", "u", "g", "f", "s">>, <<"h", "u", "g", "e", "t", "l", "b", "f", "s">>, <<"m", "q", "u", "e", "u", "e">>, <<"f", "u", "s", "e", "c", "t", "l">>,
     <<"c", "o", "n", "f", "i", "g", "f", "s">>, <<"b", "i", "n", "f", "m", "t", "_", "m", "i", "s", "c">>, <<"a", "u", "t", "o", "f", "s">>, <<"e", "f", "i", "v", "a", "r", "f", "s">>, <<"t", "r", "a", "c", "e", "f", "s">>}

exclude_mounts == {<<"/", "b", "o", "o", "t", "/", "e", "f", "i">>, <<"/", "s", "n", "a", "p">>}

\* the dict appended at lines 170-174
DiskEntry(filesystem, mount_point, used_percent) ==
    [device |-> Text(filesystem), mount_point |-> Text(mount_point),
     used_percent |-> used_percent]

\* the loop body without the test of the device path (line 165)
DiskRowAnyDevice(parts) ==
    IF Len(parts) >= 7
    THEN LET filesystem == parts[1]
             fs_type == parts[2]
             mount_point == parts[7]
             used_percent == ParseFloat(RStrip(parts[6], "%"))
         IN  IF fs_type \in exclude_types THEN <<>>
             ELSE IF \E exc \in exclude_mounts : StartsWith(mount_point, exc)
             THEN <<>>
             ELSE IF used_percent.raised = "ValueError" THEN <<>>
             ELSE <<DiskEntry(filesystem, mount_point, used_percent.value)>>
    ELSE <<>>

\* get_disk_usage, lines 153-176: what one row of `df -PT` appends to
\* disks; parts is line.split(), so Python's parts[k] is parts[k+1] here
DiskRow(parts) ==
    IF Len(parts) >= 7
    THEN LET filesystem == parts[1]
             fs_type == parts[2]
             mount_point == parts[7]
             used_percent == ParseFloat(RStrip(parts[6], "%"))
         IN  IF fs_type \in exclude_types THEN <<>>
             ELSE IF \E exc \in exclude_mounts : StartsWith(mount_point, exc)
             THEN <<>>
             ELSE IF ~StartsWith(filesystem, <<"/">>) THEN <<>>
             ELSE IF used_percent.raised = "ValueError" THEN <<>>
             ELSE <<DiskEntry(filesystem, mount_point, used_percent.value)>>
    ELSE <<>>

RECURSIVE DiskRows(_)
DiskRows(lines) ==
    IF lines = <<>> THEN <<>>
    ELSE DiskRow(Head(lines)) \o DiskRows(Tail(lines))

\* get_disk_usage: df.lines are the lines of the output, the header first
get_disk_usage(df) ==
    IF df.raised = "none"
    THEN Returns(DiskRows(SubSeq(df.lines, 2, Len(df.lines))))
    ELSE IF Caught(df.raised, {"Exception"}) THEN Returns(<<>>)
    ELSE Raises(df.raised)

DEFAULT_IGNORE_SERVICES ==
    <<<<"s", "n", "a", "p", "d", ".", "r", "e", "f", "r", "e", "s", "h", ".", "t", "i", "m", "e", "r">>, <<"a", "p", "t", "-", "d", "a", "i", "l", "y", ".", "t", "i", "m", "e", "r">>,
      <<"a", "p", "t", "-", "d", "a", "i", "l", "y", "-", "u", "p", "g", "r", "a", "d", "e", ".", "t", "i", "m", "e", "r">>, <<"m", "o", "t", "d", "-", "n", "e", "w", "s", ".", "t", "i", "m", "e", "r">>, <<"f", "s", "t", "r", "i", "m", ".", "t", "i", "m", "e", "r">>,
      <<"a", "n", "a", "c", "r", "o", "n", ".", "t", "i", "m", "e", "r">>, <<"m", "a", "n", "-", "d", "b", ".", "t", "i", "m", "e", "r">>, <<"l", "o", "g", "r", "o", "t", "a", "t", "e", ".", "t", "i", "m", "e", "r">>>>

\* the pattern loop with every pattern compared for equality only
ShouldIgnoreExactOnly(service_name, ignore_list) ==
    \E i \in 1..Len(ignore_list) : ignore_list[i] = service_name

\* lines 210-218 (and 261-269): should_ignore after the pattern loop
ShouldIgnore(service_name, ignore_list) ==
    \E i \in 1..Len(ignore_list) :
        LET pattern == ignore_list[i]
        IN  IF pattern # <<>> /\ pattern[Len(pattern)] = "*"
            THEN StartsWith(service_name, SubSeq(pattern, 1, Len(pattern) - 1))
            ELSE pattern = service_name

\* lines 203-221: each line is line.split(); a blank line has no parts
RECURSIVE FailedLoop(_, _)
FailedLoop(lines, ignore_list) ==
    IF lines = <<>> THEN <<>>
    ELSE LET parts == Head(lines)
         IN  (IF parts # <<>> /\ ~ShouldIgnore(parts[1], ignore_list)
              THEN <<Text(parts[1])>> ELSE <<>>)
             \o FailedLoop(Tail(lines), ignore_list)

\* get_failed_services without the `except Exception` clause of line 226
get_failed_servicesMissingToolOnly(ignore_list, units) ==
    LET patterns == IF ignore_list = None THEN DEFAULT_IGNORE_SERVICES
                    ELSE ValueOf(ignore_list)
    IN  IF units.raised = "none"
        THEN Returns(FailedLoop(units.lines, patterns))
        ELSE IF Caught(units.raised, {"FileNotFoundError"})
        THEN Returns(<<>>)
        ELSE Raises(units.raised)

\* get_failed_services: units is the result of
\* `systemctl list-units --state=failed --no-legend --plain`
get_failed_services(ignore_list, units) ==
    LET patterns == IF ignore_list = None THEN DEFAULT_IGNORE_SERVICES
                    ELSE ValueOf(ignore_list)
    IN  IF units.raised = "none"
        THEN Returns(FailedLoop(units.lines, patterns))
        ELSE IF Caught(units.raised, {"FileNotFoundError", "Exception"})
        THEN Returns(<<>>)
        ELSE Raises(units.raised)

\* s.strip() for the blanks and newlines around a command's output
RECURSIVE Strip(_)
Strip(s) ==
    IF s # <<>> /\ s[1] \in {" ", "\n", "\t"} THEN Strip(Tail(s))
    ELSE IF s # <<>> /\ s[Len(s)] \in {" ", "\n", "\t"}
    THEN Strip(SubSeq(s, 1, Len(s) - 1))
    ELSE s

\* lines 251-256: the set of the first words of the non-blank lines
EnabledServices(lines) ==
    {lines[i][1] : i \in {j \in 1..Len(lines) : lines[j] # <<>>}}

\* the orders in which a for loop may visit a set
SetOrders(S) == {q \in [1..Cardinality(S) -> S] : Range(q) = S}

\* lines 259-283: the loop over enabled_services from `order` on, with
\* stopped_services as built so far; an exception of the is-active query
\* leaves the loop and carries the list built so far to the handlers
RECURSIVE StoppedLoop(_, _, _, _)
StoppedLoop(order, ignore_list, is_active, stopped_services) ==
    IF order = <<>> THEN Returns(stopped_services)
    ELSE LET service == Head(order)
             result == is_active[service]
         IN  IF ShouldIgnore(service, ignore_list)
             THEN StoppedLoop(Tail(order), ignore_list, is_active,
                              stopped_services)
             ELSE IF result.raised # "none"
             THEN [raised |-> result.raised, value |-> stopped_services]
             ELSE StoppedLoop(Tail(order), ignore_list, is_active,
                     IF Strip(result.stdout) \notin {<<"a", "c", "t", "i", "v", "e">>, <<"a", "c", "t", "i", "v", "a", "t", "i", "n", "g">>}
                     THEN Append(stopped_services, Text(service))
                     ELSE stopped_services)

\* get_stopped_automatic_services: unit_files is the result of
\* `systemctl list-unit-files --state=enabled`, is_active the result of
\* `systemctl is-active` for each unit, order the order in which the loop
\* of line 259 visits the set enabled_services
get_stopped_automatic_services(ignore_list, unit_files, is_active, order) ==
    LET patterns == IF ignore_list = None THEN DEFAULT_IGNORE_SERVICES
                    ELSE ValueOf(ignore_list)
        clauses == {"FileNotFoundError", "Exception"}
    IN  IF unit_files.raised = "none"
        THEN LET scan == StoppedLoop(order, patterns, is_active, <<>>)
             IN  IF scan.raised = "none" \/ Caught(scan.raised, clauses)
                 THEN Returns(scan.value)
                 ELSE Raises(scan.raised)
        ELSE IF Caught(unit_files.raised, clauses) THEN Returns(<<>>)
        ELSE Raises(unit_files.raised)

(***************************************************************************)
(* SpecGet: the agents that print their payload (get_system_metrics.py,    *)
(* get_checkpoint_metrics.py), from the raw results of their probes to the *)
(* JSON document on standard output.  The agent is then invoked again on   *)
(* the same probe results, so that the documents of the runs can be        *)
(* compared.                                                               *)
(***************************************************************************)
MaxRuns == 2

Failed(exc) == [raised |-> exc]

\* two readings of /proc/stat, 100 ticks apart, of which 100 - usage idle
StatOk(usage) ==
    [raised |-> "none", idle1 |-> 1000, total1 |-> 2000,
     idle2 |-> 1000 + (100 - usage), total2 |-> 2100]

\* a command's standard output, as the lines it is split into
LinesOk(lines) == [raised |-> "none", lines |-> lines]

DfHeader ==
    <<<<"F", "i", "l", "e", "s", "y", "s", "t", "e", "m">>, <<"T", "y", "p", "e">>, <<"1", "0", "2", "4", "-", "b", "l", "o", "c", "k", "s">>, <<"U", "s", "e", "d">>, <<"A", "v", "a", "i", "l", "a", "b", "l", "e">>,
      <<"C", "a", "p", "a", "c", "i", "t", "y">>, <<"M", "o", "u", "n", "t", "e", "d">>, <<"o", "n">>>>

\* one row of `df -PT`, split into its columns
DfRow(filesystem, fs_type, capacity, mount_point) ==
    <<filesystem, fs_type, <<"1", "0", "0", "0">>, <<"5", "0", "0">>, <<"5", "0", "0">>, capacity, mount_point>>

UnitNginx == <<"n", "g", "i", "n", "x", ".", "s", "e", "r", "v", "i", "c", "e">>
UnitSshd == <<"s", "s", "h", "d", ".", "s", "e", "r", "v", "i", "c", "e">>
GetUnits == {UnitNginx, UnitSshd}

\* one line of a systemctl listing, split into words
UnitLine(name) == <<name, <<"l", "o", "a", "d", "e", "d">>>>

\* the answer of `systemctl is-active <unit>`
IsActiveOk(state) == [raised |-> "none", stdout |-> state \o <<"\n">>]

\* --check-stopped: absent, or given together with the listing of the
\* enabled units and the state of each unit
GetStoppedProbes ==
    {[check_stopped |-> FALSE, unit_files |-> LinesOk(<<>>),
      is_active |-> [u \in GetUnits |-> IsActiveOk(<<"a", "c", "t", "i", "v", "e">>)]],
     [check_stopped |-> TRUE, unit_files |-> Failed("TimeoutExpired"),
      is_active |-> [u \in GetUnits |-> IsActiveOk(<<"a", "c", "t", "i", "v", "e">>)]]}
    \cup
    {[check_stopped |-> TRUE,
      unit_files |-> LinesOk([i \in 1..Len(names) |-> UnitLine(names[i])]),
      is_active |-> [u \in GetUnits |->
                       IF u = UnitNginx THEN nginx
                       ELSE IsActiveOk(<<"i", "n", "a", "c", "t", "i", "v", "e">>)]] :
       names \in {<<>>, <<UnitNginx, UnitSshd>>},
       nginx \in {IsActiveOk(<<"a", "c", "t", "i", "v", "e">>), IsActiveOk(<<"f", "a", "i", "l", "e", "d">>)}}

\* the results of the probes of a run: /proc/stat and the idle figure of
\* `top -bn1`, /proc/meminfo, `df -PT`, the listing of the failed units
HostGetInputs ==
    {[stat |-> c[1], top |-> c[2], meminfo |-> m, df |-> d, units |-> u,
      check_stopped |-> s.check_stopped, unit_files |-> s.unit_files,
      is_active |-> s.is_active, ignore_services |-> DEFAULT_IGNORE_SERVICES,
      json_only |-> j, w |-> 85, e |-> 95, project_name |-> "Servers",
      system_name |-> "Monitoring", hostname |-> "host01"] :
       c \in {<<StatOk(10), [raised |-> "none", idle |-> <<13>>]>>,
              <<StatOk(96), Failed("FileNotFoundError")>>,
              <<Failed("PermissionError"), [raised |-> "none", idle |-> <<13>>]>>,
              <<Failed("PermissionError"), Failed("TimeoutExpired")>>},
       m \in {[raised |-> "none",
               fields |-> [MemTotal |-> 1000, MemAvailable |-> 130]],
              [raised |-> "none",
               fields |-> [MemTotal |-> 1000, MemFree |-> 20, Buffers |-> 10,
                           Cached |-> 10]],
              Failed("FileNotFoundError")},
       d \in {Failed("FileNotFoundError"), Failed("TimeoutExpired"),
              LinesOk(<<DfHeader>>),
              LinesOk(<<DfHeader, DfRow(<<"/", "d", "e", "v", "/", "s", "d", "a", "1">>, <<"e", "x", "t", "4">>, <<"9", "6", "%">>, <<"/">>)>>),
              LinesOk(<<DfHeader, DfRow(<<"t", "m", "p", "f", "s">>, <<"t", "m", "p", "f", "s">>, <<"1", "%">>, <<"/", "r", "u", "n">>),
                        DfRow(<<"/", "d", "e", "v", "/", "s", "d", "a", "1">>, <<"e", "x", "t", "4">>, <<"9", "6", "%">>, <<"/">>)>>)},
       u \in {Failed("FileNotFoundError"), Failed("TimeoutExpired"),
              LinesOk(<<>>), LinesOk(<<UnitLine(UnitNginx)>>),
              LinesOk(<<UnitLine(UnitSshd)>>)},
       s \in GetStoppedProbes, j \in BOOLEAN}

(***************************************************************************)
(* Appliance agent, the extractors of get_checkpoint_metrics.py.  The      *)
(* output of a command is the sequence of its lines: a table line is the   *)
(* list of its cells (line.split('|')), a line `key: value` is the pair    *)
(* <<key, value>>, and a listing of devices is the sequence of its blocks  *)
(* (output.split of blank lines), each block a sequence of such pairs.     *)
(***************************************************************************)
RECURSIVE SumSeq(_)
SumSeq(q) == IF q = <<>> THEN 0 ELSE Head(q) + SumSeq(Tail(q))

MaxSeq(q) == CHOOSE m \in Range(q) : \A x \in Range(q) : x <= m

\* sum(cpus) / len(cpus); the usages of the model have a whole mean, which
\* round(.., 2) leaves as it is
Mean(q) == SumSeq(q) \div Len(q)

\* one row of the multi_cpu table, split at the bars
CpuTableRow(cpu_id, usage) ==
    << <<>>, <<" ", " ", " ">> \o cpu_id, <<" ", " ", "0">>, <<" ", " ", "1">>, <<" ", "9", "9">>, <<" ", " ">> \o usage,
       <<" ", " ", " ", " ", "?">>, <<" ", "3", "7", "1", "5">>, <<>> >>

CpuTableHeader ==
    << <<>>, <<"C", "P", "U", "#">>, <<"U", "s", "e", "r", " ", "T", "i", "m", "e", "(", "%", ")">>, <<"S", "y", "s", "t", "e", "m", " ", "T", "i", "m", "e", "(", "%", ")">>, <<"I", "d", "l", "e", " ", "T", "i", "m", "e", "(", "%", ")">>,
       <<"U", "s", "a", "g", "e", "(", "%", ")">>, <<"R", "u", "n", " ", "q", "u", "e", "u", "e">>, <<"I", "n", "t", "e", "r", "r", "u", "p", "t", "s", "/", "s", "e", "c">>, <<>> >>

CpuTableRule == <<<<"-", "-", "-", "-", "-", "-", "-", "-", "-", "-">>>>

MOCK_DATA ==
    [cpu |-> << <<<<"C", "P", "U", " ", "U", "s", "a", "g", "e">>, <<"1", "5", "%">>>> >>,
     multi_cpu |-> << <<<<"P", "r", "o", "c", "e", "s", "s", "o", "r", "s", " ", "l", "o", "a", "d">>>>, CpuTableRule, CpuTableHeader,
                      CpuTableRule, CpuTableRow(<<"1">>, <<"1">>),
                      CpuTableRow(<<"2">>, <<"3">>), CpuTableRow(<<"3">>, <<"6">>),
                      CpuTableRow(<<"4">>, <<"9", "0">>), CpuTableRule >>,
     cphaprob_list |-> << << <<<<"D", "e", "v", "i", "c", "e", " ", "N", "a", "m", "e">>, <<"S", "y", "n", "c", "h", "r", "o", "n", "i", "z", "a", "t", "i", "o", "n">>>>,
                             <<<<"S", "t", "a", "t", "e">>, <<"O", "K">>>> >>,
                          << <<<<"D", "e", "v", "i", "c", "e", " ", "N", "a", "m", "e">>, <<"F", "i", "l", "t", "e", "r">>>>,
                             <<<<"S", "t", "a", "t", "e">>, <<"O", "K">>>> >> >>,
     memory |-> << <<<<"T", "o", "t", "a", "l", " ", "V", "i", "r", "t", "u", "a", "l", " ", "M", "e", "m", "o", "r", "y", " ", "(", "B", "y", "t", "e", "s", ")">>, <<" ", " ", "1", "4", "5", "6", "4", "3", "0", "6", "9", "4", "4">>>>,
                   <<<<"A", "c", "t", "i", "v", "e", " ", "V", "i", "r", "t", "u", "a", "l", " ", "M", "e", "m", "o", "r", "y", " ", "(", "B", "y", "t", "e", "s", ")">>, <<" ", "3", "2", "9", "3", "8", "3", "5", "2", "6", "4">>>>,
                   <<<<"T", "o", "t", "a", "l", " ", "R", "e", "a", "l", " ", "M", "e", "m", "o", "r", "y", " ", "(", "B", "y", "t", "e", "s", ")">>, <<" ", " ", " ", " ", " ", "5", "9", "7", "7", "1", "2", "0", "7", "6", "8">>>>,
                   <<<<"A", "c", "t", "i", "v", "e", " ", "R", "e", "a", "l", " ", "M", "e", "m", "o", "r", "y", " ", "(", "B", "y", "t", "e", "s", ")">>, <<" ", " ", " ", " ", "3", "2", "9", "3", "8", "3", "5", "2", "6", "4">>>>,
                   <<<<"F", "r", "e", "e", " ", "R", "e", "a", "l", " ", "M", "e", "m", "o", "r", "y", " ", "(", "B", "y", "t", "e", "s", ")">>, <<" ", " ", " ", " ", " ", " ", "2", "6", "8", "3", "2", "8", "5", "5", "0", "4">>>>,
                   <<<<"M", "e", "m", "o", "r", "y", " ", "S", "w", "a", "p", "s", "/", "S", "e", "c">>, <<" ", " ", " ", " ", " ", " ", " ", " ", " ", " ", " ", " ", " ", " ", "-">>>>,
                   <<<<"M", "e", "m", "o", "r", "y", " ", "T", "o", " ", "D", "i", "s", "k", " ", "T", "r", "a", "n", "s", "f", "e", "r", "s", "/", "S", "e", "c">>, <<" ", " ", "-">>>> >>,
     cluster |-> <<"C", "l", "u", "s", "t", "e", "r", " ", "M", "o", "d", "e", ":", " ", " ", " ", "H", "i", "g", "h", " ", "A", "v", "a", "i", "l", "a", "b", "i", "l", "i", "t", "y", " ", "(", "A", "c", "t", "i", "v", "e", " ", "U", "p", ")">>
                  \o <<"\n">> \o <<>>
                  \o <<"\n">> \o <<"S", "y", "n", "c", " ", "M", "o", "d", "e", ":", " ", " ", " ", "O", "p", "t", "i", "m", "i", "z", "e", "d", " ", "S", "y", "n", "c">>
                  \o <<"\n">> \o <<>>
                  \o <<"\n">> \o <<"I", "D", " ", " ", " ", " ", " ", " ", " ", " ", " ", "U", "n", "i", "q", "u", "e", " ", "A", "d", "d", "r", "e", "s", "s", " ", " ", "A", "s", "s", "i", "g", "n", "e", "d", " ", "L", "o", "a", "d", " ", " ", " ", "S", "t", "a", "t", "e">>
                  \o <<"\n">> \o <<>>
                  \o <<"\n">> \o <<"1", " ", "(", "l", "o", "c", "a", "l", ")", " ", " ", "1", "0", ".", "2", "3", "1", ".", "1", "4", "9", ".", "1", " ", " ", " ", " ", "1", "0", "0", "%", " ", " ", " ", " ", " ", " ", " ", " ", " ", " ", " ", " ", "A", "C", "T", "I", "V", "E">>
                  \o <<"\n">> \o <<"2", " ", " ", " ", " ", " ", " ", " ", " ", " ", " ", "1", "0", ".", "2", "3", "1", ".", "1", "4", "9", ".", "2", " ", " ", " ", " ", "0", "%", " ", " ", " ", " ", " ", " ", " ", " ", " ", " ", " ", " ", " ", " ", "S", "T", "A", "N", "D", "B", "Y">>
                  \o <<"\n">> \o <<>>
                  \o <<"\n">> \o <<"A", "c", "t", "i", "v", "e", " ", "P", "N", "O", "T", "E", "s", ":", " ", "N", "o", "n", "e">>
                  \o <<"\n">> \o <<>>
                  \o <<"\n">> \o <<"L", "a", "s", "t", " ", "m", "e", "m", "b", "e", "r", " ", "s", "t", "a", "t", "e", " ", "c", "h", "a", "n", "g", "e", " ", "e", "v", "e", "n", "t", ":">>
                  \o <<"\n">> \o <<" ", " ", " ", "E", "v", "e", "n", "t", " ", "C", "o", "d", "e", ":", " ", " ", " ", " ", " ", " ", " ", " ", " ", " ", " ", " ", " ", " ", " ", " ", " ", "C", "L", "U", "S", "-", "1", "1", "4", "9", "0", "4">>
                  \o <<"\n">> \o <<" ", " ", " ", "S", "t", "a", "t", "e", " ", "c", "h", "a", "n", "g", "e", ":", " ", " ", " ", " ", " ", " ", " ", " ", " ", " ", " ", " ", " ", " ", " ", "A", "C", "T", "I", "V", "E", "(", "!", ")", " ", "-", ">", " ", "A", "C", "T", "I", "V", "E">>
                  \o <<"\n">> \o <<" ", " ", " ", "R", "e", "a", "s", "o", "n", " ", "f", "o", "r", " ", "s", "t", "a", "t", "e", " ", "c", "h", "a", "n", "g", "e", ":", " ", " ", " ", " ", "R", "e", "a", "s", "o", "n", " ", "f", "o", "r", " ", "A", "C", "T", "I", "V", "E", "!", " ", "a", "l", "e", "r", "t", " ", "h", "a", "s", " ", "b", "e", "e", "n", " ", "r", "e", "s", "o", "l", "v", "e", "d">>
                  \o <<"\n">> \o <<" ", " ", " ", "E", "v", "e", "n", "t", " ", "t", "i", "m", "e", ":", " ", " ", " ", " ", " ", " ", " ", " ", " ", " ", " ", " ", " ", " ", " ", " ", " ", "W", "e", "d", " ", "M", "a", "r", " ", "1", "2", " ", "0", "1", ":", "3", "3", ":", "3", "8", " ", "2", "0", "2", "5">>
                  \o <<"\n">> \o <<>>
                  \o <<"\n">> \o <<"C", "l", "u", "s", "t", "e", "r", " ", "f", "a", "i", "l", "o", "v", "e", "r", " ", "c", "o", "u", "n", "t", ":">>
                  \o <<"\n">> \o <<" ", " ", " ", "F", "a", "i", "l", "o", "v", "e", "r", " ", "c", "o", "u", "n", "t", "e", "r", ":", " ", " ", " ", " ", " ", " ", " ", " ", " ", " ", " ", "0">>
                  \o <<"\n">> \o <<" ", " ", " ", "T", "i", "m", "e", " ", "o", "f", " ", "c", "o", "u", "n", "t", "e", "r", " ", "r", "e", "s", "e", "t", ":", " ", " ", " ", " ", " ", " ", "W", "e", "d", " ", "M", "a", "r", " ", "1", "2", " ", "0", "0", ":", "3", "2", ":", "5", "0", " ", "2", "0", "2", "5", " ", "(", "r", "e", "b", "o", "o", "t", ")">>,
     heavy_conn |-> <<"[", "f", "w", "_", "6", "0", "]", ";", " ", "c", "o", "n", "n", ":", " ", "1", "9", "2", ".", "1", "6", "8", ".", "1", ".", "1", ":", "3", "7", "8", "8", " ", "-", ">", " ", "1", "9", "2", ".", "1", "6", "8", ".", "1", ".", "3", ":", "8", "0", "8", "0", " ", "I", "P", "P", " ", "6", ";", " ", "I", "n", "s", "t", "a", "n", "c", "e", " ", "l", "o", "a", "d", ":", " ", "6", "8", "%", ";", " ", "C", "o", "n", "n", "e", "c", "t", "i", "o", "n", " ", "i", "n", "s", "t", "a", "n", "c", "e", " ", "l", "o", "a", "d", " ", "9", "1", "%", ";", " ", "S", "t", "a", "r", "t", "T", "i", "m", "e", ":", " ", "1", "7", "/", "1", "2", "/", "2", "5", " ", "0", "3", ":", "1", "8", ":", "1", "8", ";", " ", "D", "u", "r", "a", "t", "i", "o", "n", ":", " ", "3", ";", " ", "I", "d", "e", "n", "t", "i", "f", "i", "c", "a", "t", "i", "o", "n", "T", "i", "m", "e", ":", " ", "1", "7", "/", "1", "2", "/", "2", "5", " ", "0", "3", ":", "1", "8", ":", "1", "9", ";", " ", "S", "e", "e", "r", "v", "i", "c", "e", ":", " ", "6", ":", "8", "0", "8", "0", ";", " ", "T", "o", "t", "a", "l", " ", "B", "y", "t", "e", "s", ":", " ", "1", "1", "2", "3", "5", "3", "4", ";">>
                  \o <<"\n">> \o <<"[", "f", "w", "_", "6", "0", "]", ";", " ", "c", "o", "n", "n", ":", " ", "1", "0", ".", "0", ".", "0", ".", "1", ":", "1", "2", "3", "4", " ", "-", ">", " ", "1", "0", ".", "0", ".", "0", ".", "2", ":", "8", "0", " ", "I", "P", "P", " ", "6", ";", " ", "I", "n", "s", "t", "a", "n", "c", "e", " ", "l", "o", "a", "d", ":", " ", "5", "0", "%", ";", " ", "C", "o", "n", "n", "e", "c", "t", "i", "o", "n", " ", "i", "n", "s", "t", "a", "n", "c", "e", " ", "l", "o", "a", "d", " ", "8", "0", "%", ";", " ", "S", "t", "a", "r", "t", "T", "i", "m", "e", ":", " ", "1", "6", "/", "1", "2", "/", "2", "5", " ", "1", "0", ":", "0", "0", ":", "0", "0", ";", " ", "D", "u", "r", "a", "t", "i", "o", "n", ":", " ", "3", ";", " ", "I", "d", "e", "n", "t", "i", "f", "i", "c", "a", "t", "i", "o", "n", "T", "i", "m", "e", ":", " ", "1", "6", "/", "1", "2", "/", "2", "5", " ", "1", "0", ":", "0", "0", ":", "0", "0", ";", " ", "S", "e", "e", "r", "v", "i", "c", "e", ":", " ", "6", ":", "8", "0", ";", " ", "T", "o", "t", "a", "l", " ", "B", "y", "t", "e", "s", ":", " ", "5", "0", "0", "0", ";">>]

\* run_command: the output of the command, empty when running it raised;
\* with --mock the entry of MOCK_DATA
run_command(probe, mock, mock_key) ==
    IF mock THEN Get(MOCK_DATA, mock_key, <<>>)
    ELSE IF probe.raised = "none" THEN probe.output
    ELSE <<>>

\* lines 104-120: cpus and heavy_cpus after the loop over the table lines
RECURSIVE CpuTableLoop(_, _)
CpuTableLoop(lines, warning_threshold) ==
    IF lines = <<>> THEN [cpus |-> <<>>, heavy_cpus |-> <<>>]
    ELSE LET parts == Head(lines)
             rest == CpuTableLoop(Tail(lines), warning_threshold)
             starts_with_bar == Len(parts) >= 2 /\ parts[1] = <<>>
             is_header == \E k \in 1..Len(parts) :
                              \E i \in 1..(Len(parts[k]) - 3) :
                                  SubSeq(parts[k], i, i + 3) = <<"C", "P", "U", "#">>
             cpu_id == Strip(parts[2])
             usage == ParseFloat(Strip(parts[6]))
         IN  IF ~starts_with_bar \/ is_header \/ Len(parts) < 6
                \/ usage.raised = "ValueError"
             THEN rest
             ELSE [cpus |-> <<usage.value>> \o rest.cpus,
                   heavy_cpus |->
                     (IF usage.value >= warning_threshold
                      THEN <<"CPU" \o Text(cpu_id) \o ": "
                             \o FloatStr(usage.value) \o "%">>
                      ELSE <<>>) \o rest.heavy_cpus]

\* the first strategy finding no row in any table
CpuFromTableNoRows(output, warning_threshold) ==
    [found |-> FALSE]

\* first strategy, lines 99-125: the per-CPU table
CpuFromTable(output, warning_threshold) ==
    LET t == CpuTableLoop(output, warning_threshold)
    IN  IF t.cpus # <<>>
        THEN [found |-> TRUE,
              result |-> <<Mean(t.cpus), MaxSeq(t.cpus), t.heavy_cpus>>]
        ELSE [found |-> FALSE]

\* the digits a text starts with: the group (\d+) of the pattern
RECURSIVE LeadingDigits(_)
LeadingDigits(s) ==
    IF s # <<>> /\ IsDigit(Head(s)) THEN <<Head(s)>> \o LeadingDigits(Tail(s))
    ELSE <<>>

\* the second strategy leaving the list of heavy CPUs empty
CpuFromAggregateNoHeavy(output, warning_threshold) ==
    LET at == {i \in 1..Len(output) :
                 /\ Len(output[i]) = 2 /\ output[i][1] = <<"C", "P", "U", " ", "U", "s", "a", "g", "e">>
                 /\ LeadingDigits(Strip(output[i][2])) # <<>>}
        first == CHOOSE i \in at : \A j \in at : i <= j
        usage == DecimalValue(LeadingDigits(Strip(output[first][2])))
    IN  IF at # {}
        THEN [found |-> TRUE, result |-> <<usage, usage, <<>> >>]
        ELSE [found |-> FALSE]

\* second strategy, lines 128-134: the line `CPU Usage: <digits>`
CpuFromAggregate(output, warning_threshold) ==
    LET at == {i \in 1..Len(output) :
                 /\ Len(output[i]) = 2 /\ output[i][1] = <<"C", "P", "U", " ", "U", "s", "a", "g", "e">>
                 /\ LeadingDigits(Strip(output[i][2])) # <<>>}
        first == CHOOSE i \in at : \A j \in at : i <= j
        usage == DecimalValue(LeadingDigits(Strip(output[first][2])))
    IN  IF at # {}
        THEN [found |-> TRUE,
              result |-> <<usage, usage,
                           IF usage >= warning_threshold
                           THEN <<"CPU: " \o FloatStr(usage) \o "%">>
                           ELSE <<>> >>]
        ELSE [found |-> FALSE]

\* third strategy, lines 137-160: two readings of /proc/stat when the file
\* exists and --mock is not given; an exception while reading is caught at
\* line 162
CpuFromSnapshot(stat, mock, warning_threshold) ==
    IF mock \/ stat.raised # "none" THEN [found |-> FALSE]
    ELSE LET idle_delta == stat.idle2 - stat.idle1
             total_delta == stat.total2 - stat.total1
             usage == Percent(total_delta - idle_delta, total_delta)
         IN  IF total_delta > 0
             THEN [found |-> TRUE,
                   result |-> <<usage, usage,
                                IF usage >= warning_threshold
                                THEN <<"CPU: " \o FloatStr(usage) \o "%">>
                                ELSE <<>> >>]
             ELSE [found |-> FALSE]

\* appliance get_cpu_usage: (avg_usage, max_usage, heavy_cpus)
fw_get_cpu_usage(probes, mock, warning_threshold) ==
    LET table == CpuFromTable(run_command(probes.multi_cpu, mock, "multi_cpu"),
                              warning_threshold)
        aggregate == CpuFromAggregate(run_command(probes.cpu, mock, "cpu"),
                                      warning_threshold)
        snapshot == CpuFromSnapshot(probes.stat, mock, warning_threshold)
    IN  IF table.found THEN table.result
        ELSE IF aggregate.found THEN aggregate.result
        ELSE IF snapshot.found THEN snapshot.result
        ELSE <<0, 0, <<>>>>

\* re.search(key + r':\s*(.+)', device): the value of the first line of
\* the block that has this key, None when no line has it
FieldMatch(device, key) ==
    LET at == {i \in 1..Len(device) : device[i][1] = key}
    IN  IF at = {} THEN None
        ELSE Some(device[CHOOSE i \in at : \A j \in at : i <= j][2])

\* the loop body with the state taken as it is printed, not stripped
DeviceErrorUnstripped(device) ==
    LET name_match == FieldMatch(device, <<"D", "e", "v", "i", "c", "e", " ", "N", "a", "m", "e">>)
        state_match == FieldMatch(device, <<"S", "t", "a", "t", "e">>)
    IN  IF name_match # None /\ state_match # None
           /\ ValueOf(state_match) # <<"O", "K">>
        THEN <<Text(Strip(ValueOf(name_match))) \o ": "
               \o Text(ValueOf(state_match))>>
        ELSE <<>>

\* lines 257-265: what one block appends to errors
DeviceError(device) ==
    LET name_match == FieldMatch(device, <<"D", "e", "v", "i", "c", "e", " ", "N", "a", "m", "e">>)
        state_match == FieldMatch(device, <<"S", "t", "a", "t", "e">>)
    IN  IF name_match # None /\ state_match # None
           /\ Strip(ValueOf(state_match)) # <<"O", "K">>
        THEN <<Text(Strip(ValueOf(name_match))) \o ": "
               \o Text(Strip(ValueOf(state_match)))>>
        ELSE <<>>

RECURSIVE DeviceErrors(_)
DeviceErrors(devices) ==
    IF devices = <<>> THEN <<>>
    ELSE DeviceError(Head(devices)) \o DeviceErrors(Tail(devices))

\* get_errors: the devices of `cphaprob list` that are not in state OK
get_errors(probe, mock) ==
    DeviceErrors(run_command(probe, mock, "cphaprob_list"))

\* re.search(key + r'\s*:\s*(\d+)', output) on an output of lines
\* `key: value`: the number of the first such line whose value starts with
\* digits, None when there is none
SearchDigits(output, key) ==
    LET at == {i \in 1..Len(output) :
                 /\ Len(output[i]) = 2 /\ output[i][1] = key
                 /\ LeadingDigits(Strip(output[i][2])) # <<>>}
    IN  IF at = {} THEN None
        ELSE Some(DecimalValue(LeadingDigits(
                 Strip(output[CHOOSE i \in at : \A j \in at : i <= j][2]))))

\* get_memory_usage with the megabyte pair tried first
fw_get_memory_usageMegabytesFirst(probe, mock) ==
    LET output == run_command(probe, mock, "memory")
        total_match == SearchDigits(output, <<"T", "o", "t", "a", "l", " ", "R", "e", "a", "l", " ", "M", "e", "m", "o", "r", "y", " ", "(", "B", "y", "t", "e", "s", ")">>)
        free_match == SearchDigits(output, <<"F", "r", "e", "e", " ", "R", "e", "a", "l", " ", "M", "e", "m", "o", "r", "y", " ", "(", "B", "y", "t", "e", "s", ")">>)
        total_mb == SearchDigits(output, <<"T", "o", "t", "a", "l", " ", "M", "e", "m", "o", "r", "y">>)
        used_mb == SearchDigits(output, <<"U", "s", "e", "d", " ", "M", "e", "m", "o", "r", "y">>)
    IN  IF total_mb # None /\ used_mb # None /\ ValueOf(total_mb) > 0
        THEN <<Percent(ValueOf(used_mb), ValueOf(total_mb)),
               ValueOf(total_mb) * 1024 * 1024,
               (ValueOf(total_mb) - ValueOf(used_mb)) * 1024 * 1024>>
        ELSE IF total_match # None /\ free_match # None
                /\ ValueOf(total_match) > 0
        THEN <<Percent(ValueOf(total_match) - ValueOf(free_match),
                       ValueOf(total_match)),
               ValueOf(total_match), ValueOf(free_match)>>
        ELSE <<0, 0, 0>>

\* appliance get_memory_usage, lines 173-207: (used_percent, total_bytes,
\* free_bytes) from the byte pair of `cpstat os -f memory`, else from the
\* megabyte pair, else (0.0, 0, 0); the percentages of the model are whole,
\* which round(.., 2) leaves as they are
fw_get_memory_usage(probe, mock) ==
    LET output == run_command(probe, mock, "memory")
        total_match == SearchDigits(output, <<"T", "o", "t", "a", "l", " ", "R", "e", "a", "l", " ", "M", "e", "m", "o", "r", "y", " ", "(", "B", "y", "t", "e", "s", ")">>)
        free_match == SearchDigits(output, <<"F", "r", "e", "e", " ", "R", "e", "a", "l", " ", "M", "e", "m", "o", "r", "y", " ", "(", "B", "y", "t", "e", "s", ")">>)
        total_mb == SearchDigits(output, <<"T", "o", "t", "a", "l", " ", "M", "e", "m", "o", "r", "y">>)
        used_mb == SearchDigits(output, <<"U", "s", "e", "d", " ", "M", "e", "m", "o", "r", "y">>)
    IN  IF total_match # None /\ free_match # None
           /\ ValueOf(total_match) > 0
        THEN <<Percent(ValueOf(total_match) - ValueOf(free_match),
                       ValueOf(total_match)),
               ValueOf(total_match), ValueOf(free_match)>>
        ELSE IF total_mb # None /\ used_mb # None /\ ValueOf(total_mb) > 0
        THEN <<Percent(ValueOf(used_mb), ValueOf(total_mb)),
               ValueOf(total_mb) * 1024 * 1024,
               (ValueOf(total_mb) - ValueOf(used_mb)) * 1024 * 1024>>
        ELSE <<0, 0, 0>>

\* appliance get_cluster_state, lines 214-242: the state out of the text of
\* `cphaprob state`.  re.search(r'State:\s*(.+)', output) matches at the
\* first `State:` after which, past any run of blanks and line breaks, a
\* character other than a line break is left; the group runs from the last
\* such character that the run allows to the end of its line
get_cluster_state(probe, mock) ==
    LET output == run_command(probe, mock, "cluster")
        n == Len(output)
        Find(sub) == {i \in 1..(n - Len(sub) + 1) :
                        SubSeq(output, i, i + Len(sub) - 1) = sub}
        Min(S) == CHOOSE i \in S : \A j \in S : i <= j
        Max(S) == CHOOSE i \in S : \A j \in S : j <= i
        LineStart(i) == Max({1} \cup {k + 1 : k \in {j \in 1..(i - 1) :
                                                       output[j] = "\n"}})
        LineEnd(i) == Min({n} \cup {k - 1 : k \in {j \in i..n :
                                                     output[j] = "\n"}})
        GroupStarts(i) ==
            {j \in (i + 6)..n :
               /\ output[j] # "\n"
               /\ \A k \in (i + 6)..(j - 1) : output[k] \in {" ", "\n", "\t"}}
        matches == {i \in Find(<<"S", "t", "a", "t", "e", ":">>) : GroupStarts(i) # {}}
        group == LET j == Max(GroupStarts(Min(matches)))
                 IN  SubSeq(output, j, LineEnd(j))
        local == Min(Find(<<"(", "l", "o", "c", "a", "l", ")">>))
        line == Strip(SubSeq(output, LineStart(local), LineEnd(local)))
        state == SubSeq(line,
                        Max({1} \cup {k + 1 : k \in {j \in 1..Len(line) :
                                                       line[j] \in {" ", "\t"}}}),
                        Len(line))
        lowercase == <<"a", "b", "c", "d", "e", "f", "g", "h", "i", "j", "k", "l", "m", "n", "o", "p", "q", "r", "s", "t", "u", "v", "w", "x", "y", "z">>
        uppercase == <<"A", "B", "C", "D", "E", "F", "G", "H", "I", "J", "K", "L", "M", "N", "O", "P", "Q", "R", "S", "T", "U", "V", "W", "X", "Y", "Z">>
        upper(c) == IF \E k \in 1..26 : lowercase[k] = c
                    THEN uppercase[CHOOSE k \in 1..26 : lowercase[k] = c]
                    ELSE c
        lower(c) == IF \E k \in 1..26 : uppercase[k] = c
                    THEN lowercase[CHOOSE k \in 1..26 : uppercase[k] = c]
                    ELSE c
        capitalize(s) == [k \in 1..Len(s) |->
                            IF k = 1 THEN upper(s[k]) ELSE lower(s[k])]
    IN  IF matches # {} THEN Text(Strip(group))
        ELSE IF Find(<<"(", "l", "o", "c", "a", "l", ")">>) # {} THEN Text(capitalize(state))
        ELSE IF Find(<<"A", "c", "t", "i", "v", "e">>) # {} THEN "Active"
        ELSE IF Find(<<"S", "t", "a", "n", "d", "b", "y">>) # {} THEN "Standby"
        ELSE "Unknown"

\* get_heavy_connections scanning every line of the output
get_heavy_connectionsAllLines(probe, mock, today) ==
    LET today_str == IF mock THEN <<"1", "7", "/", "1", "2", "/", "2", "5">> ELSE today
        output == run_command(probe, mock, "heavy_conn")
        text == Strip(output)
        breaks == {i \in 1..Len(text) : text[i] = "\n"}
        Break(k) == CHOOSE i \in breaks :
                        Cardinality({j \in breaks : j < i}) = k - 1
        count == Cardinality(breaks) + 1
        lines == [k \in 1..count |->
                    SubSeq(text, IF k = 1 THEN 1 ELSE Break(k - 1) + 1,
                           IF k = count THEN Len(text) ELSE Break(k) - 1)]
        Dated(line) == \E i \in 1..(Len(line) - Len(today_str) + 1) :
                           SubSeq(line, i, i + Len(today_str) - 1) = today_str
        heavy_conns == SelectSeq(lines, Dated)
    IN  IF output = <<>> THEN <<>>
        ELSE [k \in 1..Len(heavy_conns) |-> Text(Strip(heavy_conns[k]))]

\* appliance get_heavy_connections, lines 277-308: the lines of
\* `fw ctl multik print_heavy_conn` that hold today's date, out of the last
\* five lines of the output; today is datetime.now() as DD/MM/YY, and
\* 17/12/25 with --mock
get_heavy_connections(probe, mock, today) ==
    LET today_str == IF mock THEN <<"1", "7", "/", "1", "2", "/", "2", "5">> ELSE today
        output == run_command(probe, mock, "heavy_conn")
        text == Strip(output)
        breaks == {i \in 1..Len(text) : text[i] = "\n"}
        Break(k) == CHOOSE i \in breaks :
                        Cardinality({j \in breaks : j < i}) = k - 1
        count == Cardinality(breaks) + 1
        lines == [k \in 1..count |->
                    SubSeq(text, IF k = 1 THEN 1 ELSE Break(k - 1) + 1,
                           IF k = count THEN Len(text) ELSE Break(k) - 1)]
        last_5_lines == SubSeq(lines, IF count > 5 THEN count - 4 ELSE 1, count)
        Dated(line) == \E i \in 1..(Len(line) - Len(today_str) + 1) :
                           SubSeq(line, i, i + Len(today_str) - 1) = today_str
        heavy_conns == SelectSeq(last_5_lines, Dated)
    IN  IF output = <<>> THEN <<>>
        ELSE [k \in 1..Len(heavy_conns) |-> Text(Strip(heavy_conns[k]))]

(***************************************************************************)
(* SpecGet, the appliance agent: get_checkpoint_metrics.py main.           *)
(***************************************************************************)
MaxBlocks == 2

\* a command's standard output
OutputOk(output) == [raised |-> "none", output |-> output]

\* the CPU sources: the multi_cpu table, the aggregate line, /proc/stat
GetFwCpuProbes ==
    {[multi_cpu |-> OutputOk(<<CpuTableHeader, CpuTableRow(<<"1">>, <<"1", "2">>),
                               CpuTableRow(<<"2">>, <<"9", "6">>)>>),
      cpu |-> OutputOk(<< <<<<"C", "P", "U", " ", "U", "s", "a", "g", "e">>, <<"1", "5", "%">>>> >>),
      stat |-> StatOk(10)],
     [multi_cpu |-> OutputOk(<<CpuTableHeader, CpuTableRow(<<"1">>, <<"?">>)>>),
      cpu |-> OutputOk(<< <<<<"C", "P", "U", " ", "U", "s", "a", "g", "e">>, <<"8", "7", "%">>>> >>),
      stat |-> StatOk(10)],
     [multi_cpu |-> Failed("FileNotFoundError"),
      cpu |-> Failed("FileNotFoundError"),
      stat |-> StatOk(96)],
     [multi_cpu |-> Failed("TimeoutExpired"),
      cpu |-> Failed("TimeoutExpired"),
      stat |-> Failed("FileNotFoundError")]}

\* the blocks of `cphaprob list`
DeviceBlock(name, state) == << <<<<"D", "e", "v", "i", "c", "e", " ", "N", "a", "m", "e">>, name>>, <<<<"S", "t", "a", "t", "e">>, state>> >>

FwGetInputs ==
    [cpu_probes : GetFwCpuProbes, mem : RunMemProbes,
     cluster_state : {"ACTIVE", "DOWN"}, cphaprob_list : {Failed("TimeoutExpired")}
                     \cup {OutputOk(blocks) :
                             blocks \in SeqsUpTo(
                        {DeviceBlock(<<"S", "y", "n", "c">>, <<"O", "K">>), DeviceBlock(<<"F", "i", "l", "t", "e", "r">>, <<"D", "O", "W", "N">>),
                         DeviceBlock(<<"f", "w", "d">>, <<"O", "K", " ">>),
                         << <<<<"D", "e", "v", "i", "c", "e", " ", "N", "a", "m", "e">>, <<"c", "p", "h", "a", "d">>>>, <<<<"T", "i", "m", "e", "o", "u", "t">>, <<"n", "o", "n", "e">>>> >>,
                         << <<<<"S", "t", "a", "t", "e">>, <<"p", "r", "o", "b", "l", "e", "m">>>> >>},
                        MaxBlocks)},
     heavy_connections : HeavyLists, mock : {FALSE}, json_only : BOOLEAN,
     w : {1, 85}, e : {95}, project_name : {"Firewalls"},
     system_name : {"Checkpoint"}, hostname : {"fw01"}]

\* get_checkpoint_metrics.py main, lines 441-449: "Collect metrics"; the
\* memory, cluster and connection extractors are taken by their results
FwGetCollect ==
    /\ agent = "fw_get" /\ pc = "collect"
    /\ LET cpu == fw_get_cpu_usage(inp.cpu_probes, inp.mock, inp.w)
       IN  locals' = [cpu_usage |-> cpu[1], max_cpu_usage |-> cpu[2],
                      heavy_cpus |-> cpu[3], memory_usage |-> inp.mem[1],
                      total_mem |-> inp.mem[2], free_mem |-> inp.mem[3],
                      cluster_state |-> inp.cluster_state,
                      errors |-> get_errors(inp.cphaprob_list, inp.mock),
                      heavy_connections |-> inp.heavy_connections]
    /\ printed' = IF inp.json_only THEN printed
                  ELSE printed \cup {"Gathering Checkpoint metrics..."}
    /\ pc' = "classify"
    /\ UNCHANGED <<agent, inp, severity, di, payload, kindIdx, resource_list,
                   attempts, services, raised, exitCode, stdout>>

InitGet ==
    /\ \/ agent = "host_get" /\ inp \in HostGetInputs
       \/ agent = "fw_get" /\ inp \in FwGetInputs
    /\ pc = "collect"
    /\ severity = "ok"
    /\ di = 0
    /\ NoRunState

\* get_system_metrics.py main, lines 453-468: "Collect metrics"
HostGetCollect ==
    /\ agent = "host_get" /\ pc = "collect"
    /\ \E order \in (IF inp.check_stopped /\ inp.unit_files.raised = "none"
                     THEN SetOrders(EnabledServices(inp.unit_files.lines))
                     ELSE {<<>>}) :
         LET cpu_usage == host_get_cpu_usage(inp.stat, inp.top)
             memory_usage == host_get_memory_usage(inp.meminfo)
             disks == get_disk_usage(inp.df)
             failed_services ==
                 get_failed_services(Some(inp.ignore_services), inp.units)
             stopped_services ==
                 IF inp.check_stopped
                 THEN get_stopped_automatic_services(
                          Some(inp.ignore_services), inp.unit_files,
                          inp.is_active, order)
                 ELSE Returns(<<>>)
             calls == <<cpu_usage, memory_usage, disks, failed_services,
                        stopped_services>>
             at == {i \in 1..Len(calls) : calls[i].raised # "none"}
             exc == IF at = {} THEN "none"
                    ELSE calls[CHOOSE i \in at : \A j \in at : i <= j].raised
         IN  IF exc = "none"
             THEN /\ locals' = [cpu_usage |-> cpu_usage.value,
                                memory_usage |-> memory_usage.value,
                                disks |-> disks.value,
                                failed_services |-> failed_services.value]
                  /\ services' \in
                       IF inp.check_stopped
                       THEN ListsOfSet(failed_services.value
                                       \o stopped_services.value)
                       ELSE {failed_services.value}
                  /\ pc' = "classify"
                  /\ UNCHANGED <<raised, exitCode>>
                  /\ printed' = IF inp.json_only THEN printed
                                ELSE printed \cup {"Gathering system metrics..."}
             ELSE \* lines 528-530
                  /\ raised' = exc
                  /\ printed' = printed \cup {"Error gathering metrics"}
                  /\ exitCode' = 1
                  /\ pc' = "exit"
                  /\ UNCHANGED <<locals, services>>
    /\ UNCHANGED <<agent, inp, severity, di, payload, kindIdx, resource_list,
                   attempts, stdout>>

\* main, "Calculate severity"
GetClassify ==
    /\ agent \in {"host_get", "fw_get"} /\ pc = "classify"
    /\ severity' =
         IF agent = "host_get"
         THEN HostCalculateSeverity(locals.cpu_usage, locals.memory_usage,
                                    locals.disks, services, inp.w, inp.e)
         ELSE FwCalculateSeverity(locals.cpu_usage, locals.max_cpu_usage,
                                  locals.memory_usage, locals.cluster_state,
                                  locals.errors, locals.heavy_connections,
                                  inp.w, inp.e)
    /\ pc' = "build"
    /\ UNCHANGED <<agent, inp, di, payload, kindIdx, resource_list, attempts,
                   services, raised, printed, exitCode, locals, stdout>>

\* main, "Build payload"
GetBuild ==
    /\ agent \in {"host_get", "fw_get"} /\ pc = "build"
    /\ payload' =
         IF agent = "host_get"
         THEN HostBuildPayload(locals.cpu_usage, locals.memory_usage,
                  locals.disks, services, severity, inp.project_name,
                  inp.system_name, inp.hostname)
         ELSE FwBuildPayload(locals.cpu_usage, locals.heavy_cpus,
                  locals.memory_usage, locals.total_mem, locals.free_mem,
                  locals.cluster_state, locals.errors,
                  locals.heavy_connections, severity, inp.project_name,
                  inp.system_name, inp.hostname)
    /\ pc' = "output"
    /\ UNCHANGED <<agent, inp, severity, di, kindIdx, resource_list, attempts,
                   services, raised, printed, exitCode, locals, stdout>>

\* main, "Output": the summary unless --json-only, then the document
GetOutput ==
    /\ agent \in {"host_get", "fw_get"} /\ pc = "output"
    /\ printed' = IF inp.json_only THEN printed
                  ELSE printed \cup {"Summary:", "JSON Output:"}
    /\ stdout' = Append(stdout, JsonDumps(payload))
    /\ exitCode' = 0
    /\ pc' = "exit"
    /\ UNCHANGED <<agent, inp, severity, di, payload, kindIdx, resource_list,
                   attempts, services, raised, locals>>

\* the agent is run again where the probes give the same results; di counts
\* the runs that have ended
GetAgain ==
    /\ agent \in {"host_get", "fw_get"} /\ pc = "exit" /\ di + 1 < MaxRuns
    /\ di' = di + 1
    /\ pc' = "collect"
    /\ severity' = "ok"
    /\ payload' = EmptyDict
    /\ services' = <<>>
    /\ locals' = EmptyDict
    /\ raised' = "none"
    /\ printed' = {}
    /\ exitCode' = -1
    /\ UNCHANGED <<agent, inp, kindIdx, resource_list, attempts, stdout>>

NextGet ==
    \/ HostGetCollect
    \/ FwGetCollect
    \/ GetClassify
    \/ GetBuild
    \/ GetOutput
    \/ GetAgain

SpecGet == InitGet /\ [][NextGet]_vars

(***************************************************************************)
(* Claims about the runs of SpecGet.                                       *)
(***************************************************************************)
\* neither source of the CPU figure answered
CpuSourcesFailed ==
    /\ inp.stat.raised # "none"
    /\ inp.top.raised # "none" \/ inp.top.idle = <<>>

\* C11: probe failure is isolated and non-fatal in the host agent: when a
\* run has ended, whichever of the CPU, memory, disk and failed-service
\* probes have failed (missing tool, unreadable file, timeout), each failed
\* extractor has returned its default (0.0, 0.0, [], []), every other
\* extractor has returned the value it derives from its own probe alone,
\* and the run has classified these values, built the payload from them and
\* printed exactly one document, with exit status 0.
C11_ProbeFailureIsolated ==
    (agent = "host_get" /\ Ended) =>
        /\ exitCode = 0
        /\ CpuSourcesFailed => locals.cpu_usage = 0
        /\ inp.meminfo.raised # "none" => locals.memory_usage = 0
        /\ inp.df.raised # "none" => locals.disks = <<>>
        /\ inp.units.raised # "none" => locals.failed_services = <<>>
        /\ ~CpuSourcesFailed =>
             locals.cpu_usage = host_get_cpu_usage(inp.stat, inp.top).value
        /\ inp.meminfo.raised = "none" =>
             locals.memory_usage = host_get_memory_usage(inp.meminfo).value
        /\ inp.df.raised = "none" =>
             locals.disks = get_disk_usage(inp.df).value
        /\ inp.units.raised = "none" =>
             locals.failed_services =
                 get_failed_services(Some(inp.ignore_services), inp.units).value
        /\ severity = HostCalculateSeverity(locals.cpu_usage,
                          locals.memory_usage, locals.disks, services,
                          inp.w, inp.e)
        /\ payload = HostBuildPayload(locals.cpu_usage, locals.memory_usage,
                         locals.disks, services, severity, inp.project_name,
                         inp.system_name, inp.hostname)
        /\ Len(stdout) = di + 1
        /\ stdout[Len(stdout)] = JsonDumps(payload)

\* a run in which the four probes failed, each in one of the three ways,
\* has printed a document whose figures are the defaults
C11_Witness ==
    /\ agent = "host_get" /\ Ended /\ di = 0
    /\ inp.stat.raised = "PermissionError"
    /\ inp.top.raised = "TimeoutExpired"
    /\ inp.meminfo.raised = "FileNotFoundError"
    /\ inp.df.raised = "TimeoutExpired"
    /\ inp.units.raised = "FileNotFoundError"
    /\ Len(stdout) = 1
    /\ payload.payload.CPU = "0.0%" /\ payload.payload.Memory = "0.0%"
    /\ payload.payload.Disks = "No disks found"
    /\ payload.payload.Services = "All Enabled Services Running"
    /\ payload.payload.Severity = "ok"

\* C12: determinism of the pipeline: two runs of the same agent on the same
\* raw probe outputs, thresholds, labels and options print the same
\* document, field by field, the names in the summaries in the same order.
C12_Deterministic ==
    Len(stdout) >= 2 => \A i \in 2..Len(stdout) : stdout[i] = stdout[1]

\* the blocks the appliance's device listing was split into in this run
ListedDevices ==
    IF inp.cphaprob_list.raised = "none" THEN inp.cphaprob_list.output
    ELSE <<>>

HasField(device, key) == \E i \in 1..Len(device) : device[i][1] = key

\* the trimmed value of the first line of the block that has this key
FieldOf(device, key) ==
    Strip(device[CHOOSE i \in 1..Len(device) :
                    /\ device[i][1] = key
                    /\ \A j \in 1..(i - 1) : device[j][1] # key][2])

\* the positions of the blocks that name a device whose state is not OK
FaultyDevices ==
    {i \in 1..Len(ListedDevices) :
       /\ HasField(ListedDevices[i], <<"D", "e", "v", "i", "c", "e", " ", "N", "a", "m", "e">>)
       /\ HasField(ListedDevices[i], <<"S", "t", "a", "t", "e">>)
       /\ FieldOf(ListedDevices[i], <<"S", "t", "a", "t", "e">>) # <<"O", "K">>}

\* the k-th smallest element of a set of numbers
Kth(S, k) == CHOOSE i \in S : Cardinality({j \in S : j < i}) = k - 1

C15_SummariesAgree ==
    (agent \in {"host_get", "fw_get"} /\ DOMAIN payload # {}) =>
        LET p == payload.payload
        IN  IF agent = "host_get"
            THEN /\ p.Services = "All Enabled Services Running"
                      <=> services = <<>>
                 /\ services # <<>> =>
                      p.Services = "Down: " \o Join(services, ", ")
                 /\ p.Disks = "No disks found" <=> locals.disks = <<>>
                 /\ p.Severity = HostCalculateSeverity(locals.cpu_usage,
                                     locals.memory_usage, locals.disks,
                                     services, inp.w, inp.e)
                 /\ p.Services # "All Enabled Services Running" =>
                      p.Severity = "error"
            ELSE /\ p.Errors = "No Errors" <=> locals.errors = <<>>
                 /\ p["Heavy Connections"] = "None"
                      <=> locals.heavy_connections = <<>>
                 /\ locals.heavy_connections # <<>> =>
                      p["Heavy Connections"] =
                        IntToStr(Len(locals.heavy_connections)) \o " found"
                 /\ p.Severity = FwCalculateSeverity(locals.cpu_usage,
                                     locals.max_cpu_usage, locals.memory_usage,
                                     locals.cluster_state, locals.errors,
                                     locals.heavy_connections, inp.w, inp.e)
                 /\ (p.Errors # "No Errors" \/ p["Heavy Connections"] # "None")
                      => p.Severity = "error"

\* a host payload that lists two stopped services and no disk
C15_Witness ==
    /\ agent = "host_get" /\ Ended
    /\ Len(services) = 2 /\ locals.disks = <<>>
    /\ locals.cpu_usage < inp.w /\ locals.memory_usage < inp.w
    /\ payload.payload.Services = "Down: nginx.service, sshd.service"
    /\ payload.payload.Disks = "No disks found"
    /\ payload.payload.Severity = "error"

(***************************************************************************)
(* SpecExtract: one call of an extractor on the raw result of its probe:   *)
(* the host's get_failed_services, get_stopped_automatic_services and      *)
(* get_disk_usage in one step each, the appliance's get_cpu_usage in one   *)
(* step per strategy.                                                      *)
(***************************************************************************)
MaxFailedUnits == 3
MaxDfRows == 3
MaxCpus == 3
MaxHeavyLines == 6

UnitSsh == <<"s", "s", "h", ".", "s", "e", "r", "v", "i", "c", "e">>
UnitCron == <<"c", "r", "o", "n", ".", "s", "e", "r", "v", "i", "c", "e">>
UnitFstrim == <<"f", "s", "t", "r", "i", "m", ".", "t", "i", "m", "e", "r">>

ExtractUnits == {UnitNginx, UnitSshd, UnitCron}

\* the listing of a set of units, in the order of the listing
RECURSIVE ListingOf(_)
ListingOf(S) ==
    IF S = {} THEN <<>>
    ELSE LET u == CHOOSE x \in S : TRUE
         IN  <<UnitLine(u)>> \o ListingOf(S \ {u})

\* the arguments and the results of the probes of one call of an extractor.
\* A listing of failed units has a line for each name, and blank lines; the
\* ignore list is omitted or given; the is-active query of a unit answers
\* or fails; the rows of `df -PT` are every combination of the four columns
\* that are tested, and a row that is cut short; the rows of the multi_cpu
\* table have usages with whole means, or a usage that is not a number
ExtractInputs(extractor) ==
    CASE extractor = "get_failed_services" ->
           [ignore_list : {None, Some(<<>>), Some(<<<<"s", "s", "h", "*">>>>),
                           Some(<<<<"s", "s", "h", "d", ".", "s", "e", "r", "v", "i", "c", "e">>>>), Some(<<<<"*">>>>),
                           Some(<<<<"s", "s", "h">>>>),
                           Some(<<<<"n", "g", "i", "n", "x", ".", "s", "e", "r", "v", "i", "c", "e">>, <<"s", "s", "h", "*">>>>)},
            units : {Failed("FileNotFoundError"), Failed("TimeoutExpired")}
                    \cup {LinesOk(lines) :
                            lines \in SeqsUpTo({UnitLine(UnitNginx),
                                                UnitLine(UnitSshd),
                                                UnitLine(UnitSsh),
                                                UnitLine(UnitFstrim), <<>>},
                                               MaxFailedUnits)}]
      [] extractor = "get_stopped_automatic_services" ->
           [ignore_list : {None, Some(<<<<"s", "s", "h", "*">>>>)},
            unit_files : {Failed("FileNotFoundError")}
                         \cup {LinesOk(ListingOf(S)) : S \in SUBSET ExtractUnits},
            is_active : [ExtractUnits -> {IsActiveOk(<<"a", "c", "t", "i", "v", "e">>),
                                          IsActiveOk(<<"i", "n", "a", "c", "t", "i", "v", "e">>),
                                          Failed("TimeoutExpired")}]
                        \cup {[u \in ExtractUnits |->
                                 IF u = UnitCron THEN IsActiveOk(<<"a", "c", "t", "i", "v", "a", "t", "i", "n", "g">>)
                                 ELSE Failed("PermissionError")]}]
      [] extractor = "get_disk_usage" ->
           [df : {Failed("FileNotFoundError"), Failed("TimeoutExpired"),
                  LinesOk(<<>>)}
                 \cup {LinesOk(<<DfHeader>> \o rows) :
                         rows \in SeqsUpTo(
                             {DfRow(f, t, c, m) :
                                f \in {<<"/", "d", "e", "v", "/", "s", "d", "a", "1">>, <<"s", "e", "r", "v", "e", "r", ":", "/", "e", "x", "p", "o", "r", "t">>},
                                t \in {<<"e", "x", "t", "4">>, <<"t", "m", "p", "f", "s">>},
                                c \in {<<"9", "6", "%">>, <<"-">>},
                                m \in {<<"/">>, <<"/", "s", "n", "a", "p", "/", "c", "o", "r", "e">>}}
                             \cup {<<<<"/", "d", "e", "v", "/", "s", "d", "b", "1">>, <<"e", "x", "t", "4">>, <<"1", "0", "0", "0">>>>},
                             MaxDfRows)}]
      [] extractor = "fw_get_cpu_usage" ->
           [probes :
              [multi_cpu : {Failed("FileNotFoundError")}
                           \cup {OutputOk(<<CpuTableRule, CpuTableHeader>>
                                          \o rows) :
                                   rows \in SeqsUpTo(
                                       {CpuTableRow(<<"1">>, <<"1", "2">>),
                                        CpuTableRow(<<"2">>, <<"8", "4">>),
                                        CpuTableRow(<<"3">>, <<"9", "6">>),
                                        CpuTableRow(<<"4">>, <<"?">>)}, MaxCpus)},
               cpu : {Failed("TimeoutExpired"),
                      OutputOk(<< <<<<"C", "P", "U", " ", "U", "s", "a", "g", "e">>, <<" ", "8", "4", "%">>>> >>),
                      OutputOk(<< <<<<"C", "P", "U", " ", "U", "s", "a", "g", "e">>, <<"n", "/", "a">>>> >>)},
               stat : {Failed("FileNotFoundError"), Failed("PermissionError"),
                       StatOk(96),
                       [raised |-> "none", idle1 |-> 1000, total1 |-> 2000,
                        idle2 |-> 1000, total2 |-> 2000]}],
            mock : BOOLEAN, warning_threshold : {1, 84, 85}]
      [] extractor = "fw_get_memory_usage" ->
           [memory : {Failed("FileNotFoundError"), Failed("TimeoutExpired")}
                     \cup {OutputOk(tb \o fb \o tm \o um) :
                             tb \in {<<>>,
                                     << <<<<"T", "o", "t", "a", "l", " ", "R", "e", "a", "l", " ", "M", "e", "m", "o", "r", "y", " ", "(", "B", "y", "t", "e", "s", ")">>, <<" ", " ", " ", "0">>>> >>,
                                     << <<<<"T", "o", "t", "a", "l", " ", "R", "e", "a", "l", " ", "M", "e", "m", "o", "r", "y", " ", "(", "B", "y", "t", "e", "s", ")">>, <<" ", " ", " ", "1", "0", "0", "0">>>> >>,
                                     << <<<<"T", "o", "t", "a", "l", " ", "R", "e", "a", "l", " ", "M", "e", "m", "o", "r", "y", " ", "(", "B", "y", "t", "e", "s", ")">>, <<" ", "-">>>>,
                                        <<<<"T", "o", "t", "a", "l", " ", "R", "e", "a", "l", " ", "M", "e", "m", "o", "r", "y", " ", "(", "B", "y", "t", "e", "s", ")">>, <<"1", "0", "0", "0">>>>,
                                        <<<<"T", "o", "t", "a", "l", " ", "R", "e", "a", "l", " ", "M", "e", "m", "o", "r", "y", " ", "(", "B", "y", "t", "e", "s", ")">>, <<"5", "0", "0">>>> >>},
                             fb \in {<<>>,
                                     << <<<<"F", "r", "e", "e", " ", "R", "e", "a", "l", " ", "M", "e", "m", "o", "r", "y", " ", "(", "B", "y", "t", "e", "s", ")">>, <<" ", " ", " ", "0">>>> >>,
                                     << <<<<"F", "r", "e", "e", " ", "R", "e", "a", "l", " ", "M", "e", "m", "o", "r", "y", " ", "(", "B", "y", "t", "e", "s", ")">>, <<" ", " ", " ", " ", "1", "3", "0">>>> >>,
                                     << <<<<"F", "r", "e", "e", " ", "R", "e", "a", "l", " ", "M", "e", "m", "o", "r", "y", " ", "(", "B", "y", "t", "e", "s", ")">>, <<" ", " ", " ", " ", "1", "0", "0", "0">>>> >>},
                             tm \in {<<>>, << <<<<"T", "o", "t", "a", "l", " ", "M", "e", "m", "o", "r", "y">>, <<" ", "0", "M", "B">>>> >>,
                                     << <<<<"T", "o", "t", "a", "l", " ", "M", "e", "m", "o", "r", "y">>, <<" ", "2", "0", "0", "M", "B">>>> >>},
                             um \in {<<>>, << <<<<"U", "s", "e", "d", " ", "M", "e", "m", "o", "r", "y">>, <<" ", "1", "0", "0", "M", "B">>>> >>}},
            mock : {FALSE}]
      [] extractor = "get_cluster_state" ->
           LET ClusterLines ==
                   {<<"S", "t", "a", "t", "e", ":", " ", "A", "C", "T", "I", "V", "E">>, <<"C", "l", "u", "s", "t", "e", "r", " ", "S", "t", "a", "t", "e", ":">>, <<"S", "t", "a", "t", "e", ":", " ", " ", " ", "D", "o", "w", "n", " ", " ", "(", "p", "r", "o", "b", "l", "e", "m", ")">>,
                    <<"1", " ", "(", "l", "o", "c", "a", "l", ")", " ", " ", "1", "0", ".", "0", ".", "0", ".", "1", " ", " ", "1", "0", "0", "%", " ", " ", "D", "O", "W", "N">>, <<"2", " ", " ", "1", "0", ".", "0", ".", "0", ".", "2", " ", " ", "0", "%", " ", " ", "A", "C", "T", "I", "V", "E">>,
                    <<"p", "e", "e", "r", " ", "i", "s", " ", "S", "t", "a", "n", "d", "b", "y">>, <<"A", "c", "t", "i", "v", "e", " ", "U", "p">>, <<"H", "A", " ", "m", "o", "d", "e">>}
           IN
           [cluster : {Failed("TimeoutExpired"), OutputOk(<<>>),
                       OutputOk(<<"I", "D", " ", " ", "A", "d", "d", "r", "e", "s", "s", " ", " ", "S", "t", "a", "t", "e">> \o <<"\n", "\n">>
                                \o <<"2", " ", " ", "1", "0", ".", "0", ".", "0", ".", "2", " ", " ", "A", "C", "T", "I", "V", "E">> \o <<"\n">>
                                \o <<"1", " ", "(", "l", "o", "c", "a", "l", ")", " ", " ", "1", "0", ".", "0", ".", "0", ".", "1", " ", " ", "s", "T", "A", "N", "D", "B", "Y">>)}
                      \cup {OutputOk(l) : l \in ClusterLines}
                      \cup {OutputOk(l \o <<"\n">> \o m) :
                              l \in ClusterLines, m \in ClusterLines},
            mock : BOOLEAN]
      [] extractor = "get_heavy_connections" ->
           [heavy_conn : {OutputOk(IF lines = <<>> THEN <<>>
                                   ELSE Join(lines, <<"\n">>)) :
                            lines \in SeqsUpTo(
                                {<<"a", " ", "1", "7", "/", "1", "2", "/", "2", "5", " ", "0", "3", ":", "1", "8">>, <<"c", " ", "0", "4", "/", "1", "1", "/", "2", "6", " ", "1", "0", ":", "0", "0">>,
                                 <<"d", " ", "1", "7", "/", "1", "2", "/", "2", "5", " ", "0", "4", ":", "0", "0">>}, MaxHeavyLines)},
            mock : {FALSE}, today : {<<"1", "7", "/", "1", "2", "/", "2", "5">>}]
           \cup
           [heavy_conn : {Failed("TimeoutExpired"),
                          OutputOk(<<"a", " ", "1", "7", "/", "1", "2", "/", "2", "5", " ", "0", "3", ":", "1", "8">> \o <<"\n">>
                                   \o <<" ", " ", "d", " ", "1", "7", "/", "1", "2", "/", "2", "5", " ", "0", "4", ":", "0", "0", " ", " ">>
                                   \o <<"\n", "\n">> \o <<"c", " ", "0", "4", "/", "1", "1", "/", "2", "6">>),
                          OutputOk(Join(<<<<"c", " ", "0", "4", "/", "1", "1", "/", "2", "6", " ", "1", "0", ":", "0", "0">>, <<"a", " ", "1", "7", "/", "1", "2", "/", "2", "5", " ", "0", "3", ":", "1", "8">>,
                                          <<"b", " ", "1", "6", "/", "1", "2", "/", "2", "5", " ", "1", "0", ":", "0", "0">>, <<"c", " ", "0", "4", "/", "1", "1", "/", "2", "6", " ", "1", "1", ":", "0", "0">>,
                                          <<"a", " ", "1", "7", "/", "1", "2", "/", "2", "5", " ", "0", "5", ":", "0", "0">>, <<"b", " ", "1", "6", "/", "1", "2", "/", "2", "5", " ", "1", "2", ":", "0", "0">>,
                                          <<"c", " ", "0", "4", "/", "1", "1", "/", "2", "6", " ", "1", "3", ":", "0", "0">>>>, <<"\n">>))},
            mock : BOOLEAN, today : {<<"1", "7", "/", "1", "2", "/", "2", "5">>, <<"0", "4", "/", "1", "1", "/", "2", "6">>}]

InitExtract ==
    /\ agent \in {"get_failed_services", "get_stopped_automatic_services",
                  "get_disk_usage", "fw_get_cpu_usage", "fw_get_memory_usage",
                  "get_cluster_state", "get_heavy_connections"}
    /\ inp \in ExtractInputs(agent)
    /\ pc = IF agent = "fw_get_cpu_usage" THEN "table" ELSE "call"
    /\ severity = "ok"
    /\ di = 0
    /\ NoRunState

\* the call returns, or the exception leaves it
AfterCall(call) ==
    /\ locals' = [result |-> call.value]
    /\ raised' = call.raised
    /\ pc' = "return"

CallFailedServices ==
    /\ agent = "get_failed_services" /\ pc = "call"
    /\ AfterCall(get_failed_services(inp.ignore_list, inp.units))
    /\ UNCHANGED <<agent, inp, severity, di, payload, kindIdx, resource_list,
                   attempts, services, printed, exitCode, stdout>>

\* the loop visits the set of the enabled units in some order
CallStoppedServices ==
    /\ agent = "get_stopped_automatic_services" /\ pc = "call"
    /\ \E order \in (IF inp.unit_files.raised = "none"
                     THEN SetOrders(EnabledServices(inp.unit_files.lines))
                     ELSE {<<>>}) :
         LET call == get_stopped_automatic_services(
                         inp.ignore_list, inp.unit_files, inp.is_active, order)
         IN  /\ locals' = [result |-> call.value, order |-> order]
             /\ raised' = call.raised
             /\ pc' = "return"
    /\ UNCHANGED <<agent, inp, severity, di, payload, kindIdx, resource_list,
                   attempts, services, printed, exitCode, stdout>>

CallDiskUsage ==
    /\ agent = "get_disk_usage" /\ pc = "call"
    /\ AfterCall(get_disk_usage(inp.df))
    /\ UNCHANGED <<agent, inp, severity, di, payload, kindIdx, resource_list,
                   attempts, services, printed, exitCode, stdout>>

\* appliance get_cpu_usage, lines 99-125: the table is asked for; the
\* function returns when a row gave a usage
FwCpuTable ==
    /\ agent = "fw_get_cpu_usage" /\ pc = "table"
    /\ LET output == run_command(inp.probes.multi_cpu, inp.mock, "multi_cpu")
           table == CpuFromTable(output, inp.warning_threshold)
       IN  IF table.found
           THEN /\ locals' = [issued |-> <<"multi_cpu">>,
                              result |-> table.result]
                /\ pc' = "return"
           ELSE /\ locals' = [issued |-> <<"multi_cpu">>]
                /\ pc' = "aggregate"
    /\ UNCHANGED <<agent, inp, severity, di, payload, kindIdx, resource_list,
                   attempts, services, raised, printed, exitCode, stdout>>

\* lines 128-134: the aggregate usage is asked for
FwCpuAggregate ==
    /\ agent = "fw_get_cpu_usage" /\ pc = "aggregate"
    /\ LET output == run_command(inp.probes.cpu, inp.mock, "cpu")
           aggregate == CpuFromAggregate(output, inp.warning_threshold)
       IN  IF aggregate.found
           THEN /\ locals' = [issued |-> Append(locals.issued, "cpu"),
                              result |-> aggregate.result]
                /\ pc' = "return"
           ELSE /\ locals' = [issued |-> Append(locals.issued, "cpu")]
                /\ pc' = "snapshot"
    /\ UNCHANGED <<agent, inp, severity, di, payload, kindIdx, resource_list,
                   attempts, services, raised, printed, exitCode, stdout>>

\* lines 137-165: /proc/stat is read when it exists and --mock is not
\* given; the function returns the computed usage, or (0.0, 0.0, [])
FwCpuSnapshot ==
    /\ agent = "fw_get_cpu_usage" /\ pc = "snapshot"
    /\ LET snapshot == CpuFromSnapshot(inp.probes.stat, inp.mock,
                                       inp.warning_threshold)
           exists == inp.probes.stat.raised # "FileNotFoundError"
       IN  locals' = [issued |-> IF ~inp.mock /\ exists
                                 THEN Append(locals.issued, "/proc/stat")
                                 ELSE locals.issued,
                      result |-> IF snapshot.found THEN snapshot.result
                                 ELSE <<0, 0, <<>>>>]
    /\ pc' = "return"
    /\ UNCHANGED <<agent, inp, severity, di, payload, kindIdx, resource_list,
                   attempts, services, raised, printed, exitCode, stdout>>

\* the byte counts of the --mock text are beyond the integers of the model
CallMemoryUsage ==
    /\ agent = "fw_get_memory_usage" /\ pc = "call"
    /\ AfterCall(Returns(fw_get_memory_usage(inp.memory, inp.mock)))
    /\ UNCHANGED <<agent, inp, severity, di, payload, kindIdx, resource_list,
                   attempts, services, printed, exitCode, stdout>>

CallClusterState ==
    /\ agent = "get_cluster_state" /\ pc = "call"
    /\ AfterCall(Returns(get_cluster_state(inp.cluster, inp.mock)))
    /\ UNCHANGED <<agent, inp, severity, di, payload, kindIdx, resource_list,
                   attempts, services, printed, exitCode, stdout>>

CallHeavyConnections ==
    /\ agent = "get_heavy_connections" /\ pc = "call"
    /\ AfterCall(Returns(get_heavy_connections(inp.heavy_conn, inp.mock,
                                               inp.today)))
    /\ UNCHANGED <<agent, inp, severity, di, payload, kindIdx, resource_list,
                   attempts, services, printed, exitCode, stdout>>

NextExtract ==
    \/ CallFailedServices
    \/ CallStoppedServices
    \/ CallDiskUsage
    \/ CallMemoryUsage
    \/ CallClusterState
    \/ CallHeavyConnections
    \/ FwCpuTable
    \/ FwCpuAggregate
    \/ FwCpuSnapshot

SpecExtract == InitExtract /\ [][NextExtract]_vars

(***************************************************************************)
(* Claims about the calls of SpecExtract.                                  *)
(***************************************************************************)
\* a pattern ending in `*` matches the names that start with the rest of
\* it, any other pattern matches the identical name only
PatternMatches(pattern, name) ==
    IF pattern # <<>> /\ pattern[Len(pattern)] = "*"
    THEN /\ Len(name) >= Len(pattern) - 1
         /\ \A i \in 1..(Len(pattern) - 1) : name[i] = pattern[i]
    ELSE pattern = name

\* the patterns in force: the default list when ignore_list is omitted
PatternsInForce ==
    IF inp.ignore_list = None THEN DEFAULT_IGNORE_SERVICES
    ELSE ValueOf(inp.ignore_list)

Ignored(name) ==
    \E i \in 1..Len(PatternsInForce) : PatternMatches(PatternsInForce[i], name)

\* the enabled units that no pattern matches, and those of them whose
\* is-active query failed
ScannedUnits ==
    IF inp.unit_files.raised # "none" THEN {}
    ELSE {u \in ExtractUnits :
            /\ \E i \in 1..Len(inp.unit_files.lines) :
                   inp.unit_files.lines[i] = UnitLine(u)
            /\ ~Ignored(u)}

QueryFailed == {u \in ScannedUnits : inp.is_active[u].raised # "none"}

\* C17: host get_stopped_automatic_services, when the is-active query of
\* one enabled, non-ignored unit fails (timeout or execution error), does
\* not abort the scan: every other enabled, non-ignored unit is reported as
\* stopped exactly when its state is neither `active` nor `activating`.
C17_ScanNotAborted ==
    (/\ agent = "get_stopped_automatic_services" /\ pc = "return"
     /\ Cardinality(QueryFailed) = 1) =>
        \A u \in ScannedUnits \ QueryFailed :
            (Text(u) \in Range(locals.result))
            <=> (Strip(inp.is_active[u].stdout)
                   \notin {<<"a", "c", "t", "i", "v", "e">>, <<"a", "c", "t", "i", "v", "a", "t", "i", "n", "g">>})

\* the lines of the listing of failed units that name a unit, and those of
\* them whose name no pattern matches
ReportedFailed ==
    IF inp.units.raised # "none" THEN {}
    ELSE {i \in 1..Len(inp.units.lines) : inp.units.lines[i] # <<>>}

KeptFailed == {i \in ReportedFailed : ~Ignored(inp.units.lines[i][1])}

\* C18: host get_failed_services returns exactly the unit names that the
\* service manager reported as failed and that no ignore pattern matches (a
\* pattern ending in `*` matches by prefix, any other pattern the identical
\* name only), in the reported order; with ignore_list omitted the patterns
\* are the default ignore list.
C18_FailedMinusIgnored ==
    (agent = "get_failed_services" /\ pc = "return") =>
        /\ raised = "none"
        /\ Len(locals.result) = Cardinality(KeptFailed)
        /\ \A k \in 1..Len(locals.result) :
               locals.result[k] = Text(inp.units.lines[Kth(KeptFailed, k)][1])

\* three failed units, the second matched by the prefix pattern `ssh*`:
\* the other two are returned in the reported order
C18_Witness ==
    /\ agent = "get_failed_services" /\ pc = "return"
    /\ inp.ignore_list = Some(<<<<"s", "s", "h", "*">>>>)
    /\ inp.units = LinesOk(<<UnitLine(UnitFstrim), UnitLine(UnitSshd),
                            UnitLine(UnitNginx)>>)
    /\ locals.result = <<"fstrim.timer", "nginx.service">>

\* with ignore_list omitted, a unit of the default list is left out
C18_DefaultWitness ==
    /\ agent = "get_failed_services" /\ pc = "return"
    /\ inp.ignore_list = None
    /\ inp.units = LinesOk(<<UnitLine(UnitFstrim), UnitLine(UnitSsh)>>)
    /\ locals.result = <<"ssh.service">>

\* the rows of `df -PT` after the header
SourceRows ==
    IF inp.df.raised # "none" THEN <<>>
    ELSE SubSeq(inp.df.lines, 2, Len(inp.df.lines))

\* the digits of a used-percent column that is numeric: a run of digits,
\* followed by nothing but percent signs
NumericPart(capacity) ==
    {n \in 1..Len(capacity) :
       /\ \A i \in 1..n : IsDigit(capacity[i])
       /\ \A i \in (n + 1)..Len(capacity) : capacity[i] = "%"}

\* the rows that have all their columns and pass the four tests
QualifyingRows ==
    {i \in 1..Len(SourceRows) :
       LET row == SourceRows[i]
       IN  /\ Len(row) >= 7
           /\ row[2] \notin exclude_types
           /\ \A exc \in exclude_mounts :
                  \/ Len(row[7]) < Len(exc)
                  \/ \E j \in 1..Len(exc) : row[7][j] # exc[j]
           /\ row[1] # <<>> /\ row[1][1] = "/"
           /\ NumericPart(row[6]) # {}}

\* C19: host get_disk_usage produces a DiskEntry for a source row exactly
\* when the row's filesystem type is not an excluded type, its mount point
\* starts with none of the excluded prefixes, its device path starts with
\* `/` and its used-percent column is numeric; a malformed or non-numeric
\* row is skipped without affecting the other rows; the entries are in the
\* order of the source rows, and rows with the same mount point all remain.
C19_DiskRowFilter ==
    (agent = "get_disk_usage" /\ pc = "return") =>
        /\ raised = "none"
        /\ Len(locals.result) = Cardinality(QualifyingRows)
        /\ \A k \in 1..Len(locals.result) :
               LET row == SourceRows[Kth(QualifyingRows, k)]
                   n == CHOOSE n \in NumericPart(row[6]) : TRUE
               IN  locals.result[k] =
                       [device |-> Text(row[1]), mount_point |-> Text(row[7]),
                        used_percent |-> DecimalValue(SubSeq(row[6], 1, n))]

\* two rows for the same mount point with a row cut short between them:
\* both entries are returned
C19_Witness ==
    /\ agent = "get_disk_usage" /\ pc = "return"
    /\ Len(SourceRows) = 3
    /\ Len(SourceRows[2]) < 7
    /\ SourceRows[1] = SourceRows[3]
    /\ locals.result =
           << [device |-> "/dev/sda1", mount_point |-> "/", used_percent |-> 96],
              [device |-> "/dev/sda1", mount_point |-> "/", used_percent |-> 96] >>

\* what the multi_cpu command gave, and the lines of it that are usable
\* rows: table lines other than the header whose usage cell is a number
TableOutput == run_command(inp.probes.multi_cpu, inp.mock, "multi_cpu")

UsableRows ==
    {i \in 1..Len(TableOutput) :
       LET cells == TableOutput[i]
       IN  /\ Len(cells) >= 6
           /\ cells[1] = <<>>
           /\ cells # CpuTableHeader
           /\ Strip(cells[6]) # <<>>
           /\ \A j \in 1..Len(Strip(cells[6])) : IsDigit(Strip(cells[6])[j])}

RowUsage(i) == DecimalValue(Strip(TableOutput[i][6]))

HeavyRows == {i \in UsableRows : RowUsage(i) >= inp.warning_threshold}

\* the aggregate command printed `CPU Usage: <digits>`
AggregateUsage ==
    LET output == run_command(inp.probes.cpu, inp.mock, "cpu")
    IN  {DecimalValue(LeadingDigits(Strip(output[i][2]))) :
           i \in {j \in 1..Len(output) :
                    /\ output[j][1] = <<"C", "P", "U", " ", "U", "s", "a", "g", "e">>
                    /\ Strip(output[j][2]) # <<>>
                    /\ IsDigit(Strip(output[j][2])[1])}}

\* /proc/stat could be read twice and its counters had advanced
SnapshotUsage ==
    IF ~inp.mock /\ inp.probes.stat.raised = "none"
       /\ inp.probes.stat.total2 > inp.probes.stat.total1
    THEN {100 - (100 * (inp.probes.stat.idle2 - inp.probes.stat.idle1))
                  \div (inp.probes.stat.total2 - inp.probes.stat.total1)}
    ELSE {}

Single(usage) ==
    <<usage, usage,
      IF usage >= inp.warning_threshold
      THEN <<"CPU: " \o FloatStr(usage) \o "%">> ELSE <<>> >>

StrategyOrder == <<"multi_cpu", "cpu", "/proc/stat">>

\* C20: appliance get_cpu_usage tries its strategies in the fixed order
\* per-CPU table, aggregate-usage match, two-snapshot computation and stops
\* at the first that succeeds: the aggregate probe is issued only if the
\* table yielded no usable row, the two snapshots are taken only if both
\* earlier strategies failed, and if all fail the result is (0.0, 0.0, []);
\* when the table succeeds the result is (mean of the row usages, maximum
\* of the row usages, the rows with usage >= warning threshold).
C20_StrategyOrder ==
    (agent = "fw_get_cpu_usage" /\ pc # "table") =>
        /\ Len(locals.issued) \in 1..Len(StrategyOrder)
        /\ locals.issued = SubSeq(StrategyOrder, 1, Len(locals.issued))
        /\ (pc = "aggregate" \/ Len(locals.issued) >= 2) => UsableRows = {}
        /\ (pc = "snapshot" \/ Len(locals.issued) >= 3) =>
               UsableRows = {} /\ AggregateUsage = {}
        /\ pc = "return" =>
             IF UsableRows # {}
             THEN /\ locals.issued = <<"multi_cpu">>
                  /\ locals.result[1] * Cardinality(UsableRows)
                         = SumSeq([k \in 1..Cardinality(UsableRows) |->
                                      RowUsage(Kth(UsableRows, k))])
                  /\ locals.result[2] \in {RowUsage(i) : i \in UsableRows}
                  /\ \A i \in UsableRows : RowUsage(i) <= locals.result[2]
                  /\ locals.result[3] =
                         [k \in 1..Cardinality(HeavyRows) |->
                            LET i == Kth(HeavyRows, k)
                            IN  "CPU" \o Text(Strip(TableOutput[i][2])) \o ": "
                                \o FloatStr(RowUsage(i)) \o "%"]
             ELSE IF AggregateUsage # {}
             THEN /\ locals.issued = <<"multi_cpu", "cpu">>
                  /\ \E usage \in AggregateUsage : locals.result = Single(usage)
             ELSE IF SnapshotUsage # {}
             THEN /\ locals.issued = StrategyOrder
                  /\ \E usage \in SnapshotUsage : locals.result = Single(usage)
             ELSE locals.result = <<0, 0, <<>>>>
        /\ pc = "return" =>
             locals.result = fw_get_cpu_usage(inp.probes, inp.mock,
                                              inp.warning_threshold)

\* the table had a row, but none with a number, and the aggregate command
\* timed out: the three probes were issued in order and the result is the
\* usage computed from the two snapshots
C20_Witness ==
    /\ agent = "fw_get_cpu_usage" /\ pc = "return"
    /\ ~inp.mock
    /\ inp.probes.multi_cpu.raised = "none"
    /\ Len(inp.probes.multi_cpu.output) = 3
    /\ inp.probes.cpu.raised = "TimeoutExpired"
    /\ locals.issued = <<"multi_cpu", "cpu", "/proc/stat">>
    /\ locals.result = <<96, 96, <<"CPU: 96.0%">>>>

\* the table had three rows, one without a number: the result is the mean
\* and the maximum of the other two, and the row at the warning threshold
C20_TableWitness ==
    /\ agent = "fw_get_cpu_usage" /\ pc = "return"
    /\ inp.warning_threshold = 85
    /\ Cardinality(UsableRows) = 2
    /\ Len(TableOutput) = 5
    /\ locals.issued = <<"multi_cpu">>
    /\ locals.result = <<90, 96, <<"CPU3: 96.0%">>>>

\* no strategy succeeded
C20_DefaultWitness ==
    /\ agent = "fw_get_cpu_usage" /\ pc = "return"
    /\ inp.probes.stat.raised = "PermissionError"
    /\ locals.issued = <<"multi_cpu", "cpu", "/proc/stat">>
    /\ locals.result = <<0, 0, <<>>>>

\* the lines `key: <digits>` of the memory output, and the number of the
\* first of them (the empty set when there is none)
MemoryOutput ==
    IF inp.memory.raised = "none" THEN inp.memory.output ELSE <<>>

NumberLines(key) ==
    {i \in 1..Len(MemoryOutput) :
       /\ MemoryOutput[i][1] = key
       /\ Strip(MemoryOutput[i][2]) # <<>>
       /\ IsDigit(Strip(MemoryOutput[i][2])[1])}

FirstNumber(key) ==
    {DecimalValue(LeadingDigits(Strip(MemoryOutput[i][2]))) :
       i \in {j \in NumberLines(key) : \A k \in NumberLines(key) : j <= k}}

\* the (total, free) pairs in bytes and the (total, used) pairs in megabytes
BytePair ==
    FirstNumber(<<"T", "o", "t", "a", "l", " ", "R", "e", "a", "l", " ", "M", "e", "m", "o", "r", "y", " ", "(", "B", "y", "t", "e", "s", ")">>)
    \X FirstNumber(<<"F", "r", "e", "e", " ", "R", "e", "a", "l", " ", "M", "e", "m", "o", "r", "y", " ", "(", "B", "y", "t", "e", "s", ")">>)

MegabytePair == FirstNumber(<<"T", "o", "t", "a", "l", " ", "M", "e", "m", "o", "r", "y">>) \X FirstNumber(<<"U", "s", "e", "d", " ", "M", "e", "m", "o", "r", "y">>)

\* C21: appliance get_memory_usage tries the byte-denominated total/free
\* pair before the megabyte-denominated pair; it computes a used percentage
\* only from a pair whose total is > 0; when no pattern yields a total > 0
\* the result is exactly (0.0, 0, 0); and for a byte pair with
\* 0 <= free <= total and total > 0 the result is
\* (100*(total-free)/total, total, free).
C21_MemoryUsage ==
    (agent = "fw_get_memory_usage" /\ pc = "return") =>
        /\ raised = "none"
        /\ \A b \in BytePair :
               b[1] > 0 =>
                   /\ locals.result[1] * b[1] = 100 * (b[1] - b[2])
                   /\ locals.result[2] = b[1]
                   /\ locals.result[3] = b[2]
        /\ \A m \in MegabytePair :
               (m[1] > 0 /\ \A b \in BytePair : b[1] <= 0) =>
                   /\ locals.result[1] * m[1] = 100 * m[2]
                   /\ locals.result[2] = m[1] * 1048576
                   /\ locals.result[3] = (m[1] - m[2]) * 1048576
        /\ ((\A b \in BytePair : b[1] <= 0) /\ (\A m \in MegabytePair : m[1] <= 0))
               => locals.result = <<0, 0, 0>>

\* both pairs are printed and the byte total is positive: the result is
\* computed from the byte pair
C21_Witness ==
    /\ agent = "fw_get_memory_usage" /\ pc = "return"
    /\ BytePair = {<<1000, 130>>}
    /\ MegabytePair = {<<200, 100>>}
    /\ locals.result = <<87, 1000, 130>>

\* the byte total is zero: the result is computed from the megabyte pair
C21_FallbackWitness ==
    /\ agent = "fw_get_memory_usage" /\ pc = "return"
    /\ BytePair = {<<0, 130>>}
    /\ MegabytePair = {<<200, 100>>}
    /\ locals.result = <<50, 209715200, 104857600>>

\* the text that get_cluster_state reads, and its lines
ClusterOutput ==
    IF inp.mock THEN MOCK_DATA.cluster
    ELSE IF inp.cluster.raised = "none" THEN inp.cluster.output
    ELSE <<>>

RECURSIVE SplitLines(_)
SplitLines(text) ==
    IF \A i \in 1..Len(text) : text[i] # "\n" THEN <<text>>
    ELSE LET i == CHOOSE k \in 1..Len(text) :
                      text[k] = "\n" /\ \A j \in 1..(k - 1) : text[j] # "\n"
         IN  <<SubSeq(text, 1, i - 1)>> \o SplitLines(SubSeq(text, i + 1, Len(text)))

\* the places of a line where a word begins
Occurs(word, line) ==
    {i \in 1..(Len(line) - Len(word) + 1) :
       SubSeq(line, i, i + Len(word) - 1) = word}

\* the value of a `State: <value>` line: what follows the first `State:`
\* of the line, without the blanks around it
StateValue(line) ==
    LET i == CHOOSE k \in Occurs(<<"S", "t", "a", "t", "e", ":">>, line) :
                 \A j \in Occurs(<<"S", "t", "a", "t", "e", ":">>, line) : k <= j
    IN  Strip(SubSeq(line, i + 6, Len(line)))

\* the lines that give an explicit state, and the rows of the local member
StateLines ==
    {i \in 1..Len(SplitLines(ClusterOutput)) :
       /\ Occurs(<<"S", "t", "a", "t", "e", ":">>, SplitLines(ClusterOutput)[i]) # {}
       /\ StateValue(SplitLines(ClusterOutput)[i]) # <<>>}

LocalRows ==
    {i \in 1..Len(SplitLines(ClusterOutput)) :
       Occurs(<<"(", "l", "o", "c", "a", "l", ")">>, SplitLines(ClusterOutput)[i]) # {}}

\* the last blank-separated word of a line
RECURSIVE LastToken(_)
LastToken(line) ==
    IF line = <<>> \/ line[Len(line)] \in {" ", "\t"} THEN <<>>
    ELSE Append(LastToken(SubSeq(line, 1, Len(line) - 1)), line[Len(line)])

\* the states that rule 2 can give for the rows drawn
Capitalized(token) ==
    CASE token = <<"D", "O", "W", "N">> -> "Down"
      [] token = <<"A", "C", "T", "I", "V", "E">> -> "Active"
      [] token = <<"s", "T", "A", "N", "D", "B", "Y">> -> "Standby"

\* the state by the first applicable rule
StateByRules ==
    LET lines == SplitLines(ClusterOutput)
        First(S) == CHOOSE i \in S : \A j \in S : i <= j
    IN  IF StateLines # {} THEN Text(StateValue(lines[First(StateLines)]))
        ELSE IF LocalRows # {}
        THEN Capitalized(LastToken(Strip(lines[First(LocalRows)])))
        ELSE IF \E i \in 1..Len(lines) : Occurs(<<"A", "c", "t", "i", "v", "e">>, lines[i]) # {}
        THEN "Active"
        ELSE IF \E i \in 1..Len(lines) : Occurs(<<"S", "t", "a", "n", "d", "b", "y">>, lines[i]) # {}
        THEN "Standby"
        ELSE "Unknown"

\* C22: appliance get_cluster_state resolves the state by the first
\* applicable rule in this order: the value of an explicit `State: <value>`
\* line; else the last whitespace-separated token of the first row holding
\* the local marker, capitalized; else a known state token found as a
\* substring of the output; else `Unknown`.  For empty output the result is
\* `Unknown`, which the classifier turns into severity `error`.
C22_RuleOrder ==
    (agent = "get_cluster_state" /\ pc = "return") =>
        /\ locals.result = StateByRules
        /\ ClusterOutput = <<>> =>
             /\ locals.result = "Unknown"
             /\ FwCalculateSeverity(0, 0, 0, locals.result, <<>>, <<>>, 85, 95)
                  = "error"

\* a line that ends in `State:` and is followed by another line
DanglingState ==
    \E i \in 1..(Len(SplitLines(ClusterOutput)) - 1) :
        /\ Occurs(<<"S", "t", "a", "t", "e", ":">>, SplitLines(ClusterOutput)[i]) # {}
        /\ StateValue(SplitLines(ClusterOutput)[i]) = <<>>

\* the rule order holds for every output without such a line
C22_RuleOrderSameLine ==
    (agent = "get_cluster_state" /\ pc = "return" /\ ~DanglingState) =>
        /\ locals.result = StateByRules
        /\ ClusterOutput = <<>> =>
             /\ locals.result = "Unknown"
             /\ FwCalculateSeverity(0, 0, 0, locals.result, <<>>, <<>>, 85, 95)
                  = "error"

\* the local row says DOWN, the state returned is the whole row and the
\* classifier does not raise the severity
C22_DownMissed ==
    /\ agent = "get_cluster_state" /\ pc = "return"
    /\ StateByRules = "Down"
    /\ locals.result = "1 (local)  10.0.0.1  100%  DOWN"
    /\ FwCalculateSeverity(0, 0, 0, locals.result, <<>>, <<>>, 85, 95) = "ok"

\* the text that get_heavy_connections reads, its lines and the date
HeavyOutput ==
    IF inp.mock THEN MOCK_DATA.heavy_conn
    ELSE IF inp.heavy_conn.raised = "none" THEN inp.heavy_conn.output
    ELSE <<>>

HeavyToday == IF inp.mock THEN <<"1", "7", "/", "1", "2", "/", "2", "5">> ELSE inp.today

\* the places of the lines that hold today's date, all and among the last 5
DatedLines ==
    {i \in 1..Len(SplitLines(HeavyOutput)) :
       Occurs(HeavyToday, SplitLines(HeavyOutput)[i]) # {}}

DatedOfLastFive ==
    {i \in DatedLines : i > Len(SplitLines(HeavyOutput)) - 5}

\* C23: appliance get_heavy_connections returns exactly the lines among the
\* last 5 lines of the raw output that contain today's date, in their
\* original order; it never has more than 5 entries, a line dated today
\* that lies before the last 5 lines is not reported, and empty output
\* gives [].
C23_LastFiveDated ==
    (agent = "get_heavy_connections" /\ pc = "return") =>
        /\ Len(locals.result) = Cardinality(DatedOfLastFive)
        /\ \A k \in 1..Len(locals.result) :
               locals.result[k]
                 = Text(Strip(SplitLines(HeavyOutput)[Kth(DatedOfLastFive, k)]))
        /\ Len(locals.result) <= 5
        /\ \A i \in DatedLines \ DatedOfLastFive :
               (\A j \in DatedOfLastFive :
                    SplitLines(HeavyOutput)[j] # SplitLines(HeavyOutput)[i])
               => Text(SplitLines(HeavyOutput)[i]) \notin Range(locals.result)
        /\ HeavyOutput = <<>> => locals.result = <<>>

\* six lines, the first dated today and left out, a later one reported
C23_Witness ==
    /\ agent = "get_heavy_connections" /\ pc = "return"
    /\ Len(SplitLines(HeavyOutput)) = 6
    /\ DatedLines = {1, 4}
    /\ SplitLines(HeavyOutput)[4] # SplitLines(HeavyOutput)[1]
    /\ locals.result = <<Text(SplitLines(HeavyOutput)[4])>>

\* six lines dated today: five entries
C23_FiveWitness ==
    /\ agent = "get_heavy_connections" /\ pc = "return"
    /\ Cardinality(DatedLines) = 6
    /\ Len(locals.result) = 5

\* --mock: the first of the two lines of the mock text
C23_MockWitness ==
    /\ agent = "get_heavy_connections" /\ pc = "return" /\ inp.mock
    /\ DatedLines = {1}
    /\ Len(locals.result) = 1

\* the entries of the kind at kindIdx that have been posted
Posted ==
    {i \in 1..Len(resource_list) : attempts[kindIdx][i] > 0}

\* C24: cluster agent record identity: within one run the Id of each posted
\* ClusterResource is unique among the resources posted under the same
\* projectName, also for objects that share a name in different
\* namespaces, so that an upsert keyed by Id never merges two distinct
\* workload objects.
C24_UniqueId ==
    (agent = "ocp" /\ pc = "post") =>
        \A i \in Posted : \A j \in Posted :
            resource_list[i].Namespace # resource_list[j].Namespace
            => resource_list[i].Id # resource_list[j].Id

\* `web` of namespace prod and `web` of namespace test, one Running and one
\* Down, both posted under one projectName with the Id `web`
C24_MergedObjects ==
    /\ agent = "ocp" /\ pc = "post"
    /\ \E i \in Posted : \E j \in Posted :
         /\ resource_list[i].Namespace = "prod"
         /\ resource_list[j].Namespace = "test"
         /\ resource_list[i].Id = "web" /\ resource_list[j].Id = "web"
         /\ resource_list[i].Status = "Running"
         /\ resource_list[j].Status = "Down"

\* the field of the status object that holds the current count of a kind
CurrentField ==
    CASE inp.k8s_kind = "deployments" -> "availableReplicas"
      [] inp.k8s_kind = "statefulsets" -> "readyReplicas"
      [] inp.k8s_kind = "daemonsets" -> "numberReady"

\* the item is a Deployment or a StatefulSet without spec.replicas
NoSpecReplicas ==
    /\ inp.k8s_kind \in {"deployments", "statefulsets"}
    /\ "replicas" \notin DOMAIN inp.item.spec

NoCurrentCount == CurrentField \notin DOMAIN inp.item.status

\* C25: cluster calculate_status is total over the three kinds: for every
\* spec and status object, also with the replica fields absent, it returns
\* without raising a status in {Running, Down, Degraded, ScaledDown} and a
\* severity in {ok, warning, error}, never the placeholders `Unknown` and
\* `info`; a Deployment or StatefulSet without spec replicas counts as
\* desired = 1, an absent current count as 0.
C25_StatusTotal ==
    /\ (agent = "ocp_item" /\ pc \in {"entry", "appended"}) =>
           /\ raised = "none"
           /\ severity \in {"ok", "warning", "error"}
    /\ (agent = "ocp_item" /\ pc = "appended") =>
           /\ payload.Status \in {"Running", "Down", "Degraded", "ScaledDown"}
           /\ payload.Severity = severity
           /\ NoSpecReplicas /\ NoCurrentCount =>
                  /\ payload.Replicas = "0/1"
                  /\ payload.Status = "Down"
           /\ NoSpecReplicas /\ ~NoCurrentCount =>
                  /\ payload.Replicas
                       = IntToStr(inp.item.status[CurrentField]) \o "/1"
                  /\ payload.Status
                       = IF inp.item.status[CurrentField] >= 1 THEN "Running"
                         ELSE "Down"
           /\ ~NoSpecReplicas /\ NoCurrentCount
              /\ inp.k8s_kind # "daemonsets" =>
                  payload.Replicas = "0/" \o IntToStr(inp.item.spec.replicas)

\* a StatefulSet with neither spec.replicas nor status.readyReplicas
C25_Witness ==
    /\ agent = "ocp_item" /\ pc = "appended"
    /\ inp.k8s_kind = "statefulsets"
    /\ NoSpecReplicas /\ NoCurrentCount
    /\ payload.Status = "Down" /\ severity = "error"

\* a DaemonSet whose status has no field at all
C25_EmptyStatusWitness ==
    /\ agent = "ocp_item" /\ pc = "appended"
    /\ inp.k8s_kind = "daemonsets"
    /\ DOMAIN inp.item.status = {}
    /\ payload.Status = "ScaledDown" /\ severity = "warning"

\* the CPU field of the payload carries more than the usage
HeavySuffix ==
    payload.payload.CPU # FloatStr(locals.cpu_usage) \o "%"

\* C26: appliance agent, the list of heavy CPUs and the verdict: for every
\* warning threshold >= 1 and every probe output get_cpu_usage returns
\* max_usage >= average_usage and a list of heavy CPUs that is non-empty
\* exactly when max_usage >= warning threshold; hence in every run a
\* payload whose CPU field carries a `Heavy:` suffix has Severity `warning`
\* or `error`, never `ok`.
C26_HeavyConsistent ==
    /\ (agent = "fw_get" /\ pc \in {"classify", "build", "output", "exit"}) =>
           /\ locals.max_cpu_usage >= locals.cpu_usage
           /\ locals.heavy_cpus # <<>> <=> locals.max_cpu_usage >= inp.w
    /\ (agent = "fw_get" /\ pc \in {"output", "exit"}) =>
           /\ HeavySuffix <=> locals.heavy_cpus # <<>>
           /\ HeavySuffix => payload.payload.Severity \in {"warning", "error"}

\* the table gives 12 and 96: the average 54 is under the threshold 85, CPU2
\* is heavy and the document says error
C26_Witness ==
    /\ agent = "fw_get" /\ pc = "exit" /\ inp.w = 85
    /\ locals.cpu_usage = 54 /\ locals.max_cpu_usage = 96
    /\ payload.payload.CPU = "54.0% (Heavy: CPU2: 96.0%)"
    /\ payload.payload.Severity = "error"

\* the aggregate usage 87 alone makes the document a warning
C26_WarningWitness ==
    /\ agent = "fw_get" /\ pc = "exit" /\ inp.w = 85
    /\ payload.payload.CPU = "87.0% (Heavy: CPU: 87.0%)"
    /\ payload.payload.Severity = "warning"

\* threshold 1: no strategy gives a usage, (0.0, 0.0, []) is not heavy
C26_IdleWitness ==
    /\ agent = "fw_get" /\ pc = "exit" /\ inp.w = 1
    /\ locals.max_cpu_usage = 0 /\ locals.heavy_cpus = <<>>
    /\ payload.payload.CPU = "0.0%"
    /\ payload.payload.Severity = "ok"

\* get_cpu_usage alone, over the tables, lines and readings of SpecExtract
C26_CpuUsageResult ==
    (agent = "fw_get_cpu_usage" /\ pc = "return") =>
        /\ locals.result[2] >= locals.result[1]
        /\ locals.result[3] # <<>> <=> locals.result[2] >= inp.warning_threshold

=============================================================================
